---- MODULE Spec2Model ----
(***************************************************************************)
(* A model of the resize-and-cache pipeline of                             *)
(* src/src/services/ImageResizeService.js.                                 *)
(*                                                                         *)
(* JavaScript strings are sequences of one-character strings, so that      *)
(* concatenation, substring, lastIndexOf and the character codes read by   *)
(* hashString are computed, not assumed.  JavaScript objects are records   *)
(* whose domain is the set of properties the object has: a property the    *)
(* code never sets is absent from the domain (undefined), null is Null.    *)
(***************************************************************************)
EXTENDS Integers, Sequences, FiniteSets, TLC

VARIABLES
  cache,    \* this.cache: the NodeCache of the service
  now,      \* Date.now(), in seconds
  calls,    \* the requests in flight, each with its position and its locals
  resized,  \* history: what the latest successful resize of each (folder, width,
            \* height, url) returned, while an entry is held under its key
  probe,    \* the arguments and results of the pure functions checked on their own
  stats,    \* the hits and misses counted by this.cache
  admin,    \* the NodeCache of the service instance the cache controller creates
  http,     \* the last response a controller has sent
  swept,    \* the time of the last periodic check of this.cache
  download  \* one call of downloadImage: its request, its response and its promise

vars == <<cache, now, calls, resized, probe, stats, admin, http, swept, download>>

Null == <<>>

(***************************************************************************)
(* Strings                                                                 *)
(***************************************************************************)
Digits == <<"0", "1", "2", "3", "4", "5", "6", "7", "8", "9">>

Lower == <<"a", "b", "c", "d", "e", "f", "g", "h", "i", "j", "k", "l", "m",
           "n", "o", "p", "q", "r", "s", "t", "u", "v", "w", "x", "y", "z">>

Upper == <<"A", "B", "C", "D", "E", "F", "G", "H", "I", "J", "K", "L", "M",
           "N", "O", "P", "Q", "R", "S", "T", "U", "V", "W", "X", "Y", "Z">>

IndexIn(c, table) == CHOOSE i \in 1..Len(table) : table[i] = c

IsIn(c, table) == \E i \in 1..Len(table) : table[i] = c

\* String.prototype.charCodeAt for the characters the model's strings use.
charCodeAt(c) ==
  CASE IsIn(c, Digits) -> 47 + IndexIn(c, Digits)
    [] IsIn(c, Upper) -> 64 + IndexIn(c, Upper)
    [] IsIn(c, Lower) -> 96 + IndexIn(c, Lower)
    [] c = "-" -> 45
    [] c = "." -> 46
    [] c = "/" -> 47
    [] c = ":" -> 58
    [] c = "_" -> 95

\* String.prototype.toLowerCase
toLowerCase(s) ==
  [i \in 1..Len(s) |-> IF IsIn(s[i], Upper) THEN Lower[IndexIn(s[i], Upper)] ELSE s[i]]

\* String.prototype.lastIndexOf for a one-character needle: 0-based, -1 when absent.
lastIndexOf(s, c) ==
  IF \E i \in 1..Len(s) : s[i] = c
    THEN (CHOOSE i \in 1..Len(s) : s[i] = c /\ \A j \in (i + 1)..Len(s) : s[j] # c) - 1
    ELSE -1

\* String.prototype.substring(from) with a 0-based index.
substring(s, from) == SubSeq(s, from + 1, Len(s))

\* String.prototype.includes
includes(s, t) ==
  \E i \in 0..(Len(s) - Len(t)) : SubSeq(s, i + 1, i + Len(t)) = t

Min(a, b) == IF a < b THEN a ELSE b

RECURSIVE natToString(_)
\* The decimal digits of a non-negative integer, as a template literal prints it.
natToString(n) ==
  IF n < 10 THEN <<Digits[n + 1]>> ELSE natToString(n \div 10) \o <<Digits[(n % 10) + 1]>>

\* A JavaScript number n is the one-element tuple <<n>>, so that it can be compared
\* with null.
Num(n) == <<n>>

\* NaN, kept as the text a template literal prints for it
NaN == <<"N", "a", "N">>

\* `${v}` for a dimension: a number, NaN or null.
dimToString(v) ==
  IF v = Null THEN <<"n", "u", "l", "l">>
  ELSE IF v = NaN THEN NaN
  ELSE IF v[1] < 0 THEN <<"-">> \o natToString(-v[1])
  ELSE natToString(v[1])

RECURSIVE digitsValue(_)
\* the value of a string of decimal digits
digitsValue(s) ==
  IF Len(s) = 0 THEN 0
  ELSE 10 * digitsValue(SubSeq(s, 1, Len(s) - 1)) + (IndexIn(s[Len(s)], Digits) - 1)

\* parseInt(s): an optional sign and the longest prefix of digits, NaN when there
\* is no digit
parseInt(s) ==
  LET signed == Len(s) > 0 /\ s[1] \in {"-", "+"}
      body == IF signed THEN Tail(s) ELSE s
      n == CHOOSE k \in 0..Len(body) :
             /\ \A i \in 1..k : IsIn(body[i], Digits)
             /\ k = Len(body) \/ ~IsIn(body[k + 1], Digits)
      value == digitsValue(SubSeq(body, 1, n))
  IN  IF n = 0 THEN NaN
      ELSE Num(IF signed /\ s[1] = "-" THEN -value ELSE value)

(***************************************************************************)
(* hashString, on 32-bit integers kept as two 16-bit halves                *)
(***************************************************************************)
RECURSIVE xorBits(_, _)
\* Bitwise exclusive or of two non-negative integers.
xorBits(a, b) ==
  IF a = 0 THEN b
  ELSE IF b = 0 THEN a
  ELSE ((a + b) % 2) + 2 * xorBits(a \div 2, b \div 2)

Half == 256 * 256

\* One round of the loop: hash = (hash * 33) ^ charCode, on the 32-bit pattern.
hashStep(h, code) ==
  LET lo33 == h.lo * 33
      hi33 == (h.hi * 33 + (lo33 \div Half)) % Half
  IN  [hi |-> hi33, lo |-> xorBits(lo33 % Half, code)]

RECURSIVE hashLoop(_, _, _)
hashLoop(h, str, i) ==
  IF i > Len(str) THEN h ELSE hashLoop(hashStep(h, charCodeAt(str[i])), str, i + 1)

Base36 == Digits \o Lower

RECURSIVE toString36(_)
\* Number.prototype.toString(36) of the unsigned value hi * 65536 + lo.
toString36(h) ==
  LET qhi == h.hi \div 36
      rem == (h.hi % 36) * Half + h.lo
      qlo == rem \div 36
      d   == rem % 36
      \* the quotient is qhi * 65536 + qlo, and qlo may exceed 16 bits
      q   == [hi |-> qhi + (qlo \div Half), lo |-> qlo % Half]
  IN  IF q.hi = 0 /\ q.lo = 0 THEN <<Base36[d + 1]>>
      ELSE toString36(q) \o <<Base36[d + 1]>>

\* 5381 as a 32-bit pattern
hashSeed == [hi |-> 0, lo |-> 5381]

hashString(str) == toString36(hashLoop(hashSeed, str, 1))

S_resize == <<"r", "e", "s", "i", "z", "e", "_">>

(***************************************************************************)
(* The files of the model and the remote images behind their URLs          *)
(***************************************************************************)
S_host == <<"h", "t", "t", "p", "s", ":", "/", "/", "x", "/">>

\* Two URLs whose hashString values are equal (1d2f1k4), one more URL, and a
\* URL whose extension is not an image format.
Url_a1 == S_host \o <<"a", "1", ".", "p", "n", "g">>

Url_bR == S_host \o <<"b", "R", ".", "p", "n", "g">>

Url_c == S_host \o <<"c", ".", "j", "p", "g">>

Url_d == S_host \o <<"d", ".", "t", "x", "t">>

Urls == {Url_a1, Url_bR, Url_c, Url_d}

\* hashString of the URLs of the model, computed once
urlHashes == [u \in Urls |-> hashString(u)]

\* a key that also reads the service: the number of entries the cache holds
generateCacheKey_countsEntries(folderName, width, height, imageUrl) ==
  S_resize \o folderName \o <<"_">> \o dimToString(width) \o <<"x">>
    \o dimToString(height) \o <<"_">> \o hashString(imageUrl)
    \o natToString(Cardinality(DOMAIN cache))

generateCacheKey(folderName, width, height, imageUrl) ==
  LET urlHash == IF imageUrl \in Urls THEN urlHashes[imageUrl] ELSE hashString(imageUrl)
  IN  S_resize \o folderName \o <<"_">> \o dimToString(width) \o <<"x">>
        \o dimToString(height) \o <<"_">> \o urlHash

\* File objects as VercelBlobService builds them: fileName and fileUrl.
File_a1 == [fileName |-> "a1.png", fileUrl |-> Url_a1]

File_bR == [fileName |-> "bR.png", fileUrl |-> Url_bR]

File_c == [fileName |-> "c.jpg", fileUrl |-> Url_c]

File_d == [fileName |-> "d.txt", fileUrl |-> Url_d]

\* An item without a fileUrl, which only a direct caller of processBatches can pass.
File_e == [fileName |-> "e.png"]

\* the extensions of the URLs given to determineOutputFormat
Extensions ==
  {<<".", "j", "p", "g">>, <<".", "j", "p", "e", "g">>, <<".", "p", "n", "g">>,
   <<".", "w", "e", "b", "p">>, <<".", "g", "i", "f">>, <<".", "t", "i", "f", "f">>,
   <<".", "P", "N", "G">>, <<".", "W", "e", "b", "P">>, <<".", "J", "P", "G">>,
   <<".", "b", "m", "p">>, <<>>}

\* images with an alpha channel, and images without, one for every extension
TransparentUrls == {S_host \o <<"t">> \o ext : ext \in Extensions}

OpaqueUrls == {S_host \o <<"o">> \o ext : ext \in Extensions}

\* What a download of the URL delivers: the native size and the alpha channel.
SourceImage(url) ==
  CASE url = Url_a1 -> [width |-> 200, height |-> 100, hasAlpha |-> TRUE]
    [] url \in TransparentUrls -> [width |-> 64, height |-> 64, hasAlpha |-> TRUE]
    [] url = Url_bR -> [width |-> 80, height |-> 80, hasAlpha |-> FALSE]
    [] OTHER -> [width |-> 300, height |-> 150, hasAlpha |-> FALSE]

(***************************************************************************)
(* The pure steps of the pipeline                                          *)
(***************************************************************************)
S_jpg == <<"j", "p", "g">>

S_jpeg == <<"j", "p", "e", "g">>

S_png == <<"p", "n", "g">>

S_webp == <<"w", "e", "b", "p">>

S_gif == <<"g", "i", "f">>

S_tiff == <<"t", "i", "f", "f">>

supportedFormats == {S_jpg, S_jpeg, S_png, S_webp, S_gif, S_tiff}

\* a test that accepts every extension
isSupportedFormat_any(url) == lastIndexOf(url, ".") # -1

isSupportedFormat(url) ==
  LET lastDotIndex == lastIndexOf(url, ".")
  IN  IF lastDotIndex = -1 THEN FALSE
      ELSE toLowerCase(substring(url, lastDotIndex + 1)) \in supportedFormats

\* a choice of format that looks at the extension only
determineOutputFormat_ignoresAlpha(originalUrl, hasAlpha) ==
  IF toLowerCase(substring(originalUrl, lastIndexOf(originalUrl, ".") + 1)) = S_webp
    THEN "webp" ELSE "jpeg"

determineOutputFormat(originalUrl, hasAlpha) ==
  LET lastDotIndex == lastIndexOf(originalUrl, ".")
      originalFormat == IF lastDotIndex # -1
                          THEN toLowerCase(substring(originalUrl, lastDotIndex + 1))
                          ELSE S_jpg
  IN  IF hasAlpha
        THEN (IF originalFormat = S_webp THEN "webp" ELSE "png")
        ELSE (IF originalFormat = S_webp THEN "webp" ELSE "jpeg")

getMimeTypeForFormat(format) ==
  CASE format \in {"jpg", "jpeg"} -> "image/jpeg"
    [] format = "png" -> "image/png"
    [] format = "webp" -> "image/webp"
    [] format = "gif" -> "image/gif"
    [] format = "tiff" -> "image/tiff"
    [] OTHER -> "image/jpeg"

\* JavaScript truthiness of a dimension: null, NaN and 0 are falsy.
Truthy(v) == v # Null /\ v # NaN /\ v[1] # 0

RoundDiv(a, b) == (2 * a + b) \div (2 * b)

AtLeastOne(n) == IF n < 1 THEN 1 ELSE n

\* a resize that fits the box but also enlarges
fitInside_enlarges(sw, sh, width, height) ==
  LET byWidth == height = Null \/ (width # Null /\ sw * height[1] >= sh * width[1])
  IN  IF ~(Truthy(width) \/ Truthy(height)) THEN [width |-> sw, height |-> sh]
      ELSE IF byWidth
        THEN [width |-> width[1], height |-> AtLeastOne(RoundDiv(sh * width[1], sw))]
        ELSE [width |-> AtLeastOne(RoundDiv(sw * height[1], sh)), height |-> height[1]]

\* sharp's resize(width, height, {fit: 'inside', withoutEnlargement: true}):
\* the size of the output for a source of sw x sh.
fitInside(sw, sh, width, height) ==
  LET byWidth == height = Null \/ (width # Null /\ sw * height[1] >= sh * width[1])
  IN  IF ~(Truthy(width) \/ Truthy(height)) THEN [width |-> sw, height |-> sh]
      ELSE IF byWidth
        THEN (IF width[1] >= sw THEN [width |-> sw, height |-> sh]
              ELSE [width |-> width[1],
                    height |-> AtLeastOne(RoundDiv(sh * width[1], sw))])
        ELSE (IF height[1] >= sh THEN [width |-> sw, height |-> sh]
              ELSE [width |-> AtLeastOne(RoundDiv(sw * height[1], sh)),
                    height |-> height[1]])

\* pipeline.resize(width, height, ...) is called and sharp rejects a dimension
\* that is given (not null) and is not a positive integer
resizeRejects(width, height) ==
  /\ Truthy(width) \/ Truthy(height)
  /\ \E d \in {width, height} : d # Null /\ (d = NaN \/ d[1] <= 0)

HexDigits == Digits \o <<"a", "b", "c", "d", "e", "f">>

IsHex(c) == IsIn(c, HexDigits) \/ IsIn(c, <<"A", "B", "C", "D", "E", "F">>)

HexValue(c) ==
  IF IsIn(c, HexDigits) THEN IndexIn(c, HexDigits) - 1
  ELSE 9 + IndexIn(c, <<"A", "B", "C", "D", "E", "F">>)

RECURSIVE hexDigitsValue(_)
hexDigitsValue(s) ==
  IF Len(s) = 0 THEN 0
  ELSE 16 * hexDigitsValue(SubSeq(s, 1, Len(s) - 1)) + HexValue(s[Len(s)])

\* parseInt(s, 16): an optional sign, an optional 0x and the longest prefix of hex
\* digits, NaN when there is no digit
parseInt16(s) ==
  LET signed == Len(s) > 0 /\ s[1] \in {"-", "+"}
      unsigned == IF signed THEN Tail(s) ELSE s
      prefixed == Len(unsigned) >= 2 /\ unsigned[1] = "0" /\ unsigned[2] \in {"x", "X"}
      body == IF prefixed THEN SubSeq(unsigned, 3, Len(unsigned)) ELSE unsigned
      n == CHOOSE k \in 0..Len(body) :
             /\ \A i \in 1..k : IsHex(body[i])
             /\ k = Len(body) \/ ~IsHex(body[k + 1])
      value == hexDigitsValue(SubSeq(body, 1, n))
  IN  IF n = 0 THEN NaN
      ELSE Num(IF signed /\ s[1] = "-" THEN -value ELSE value)

\* String.prototype.replace('#', ''): the first '#' is removed
removeHash(s) ==
  IF \E i \in 1..Len(s) : s[i] = "#"
    THEN LET i == CHOOSE j \in 1..Len(s) : s[j] = "#" /\ \A m \in 1..(j - 1) : s[m] # "#"
         IN  SubSeq(s, 1, i - 1) \o SubSeq(s, i + 1, Len(s))
    ELSE s

\* String.prototype.substring(from, to) with 0-based indices
substring2(s, from, to) == SubSeq(s, Min(from, Len(s)) + 1, Min(to, Len(s)))

\* v || 255
orWhite(v) == IF Truthy(v) THEN v[1] ELSE 255

parseBackgroundColor(backgroundColor) ==
  LET hex == removeHash(backgroundColor)
  IN  [r |-> orWhite(parseInt16(substring2(hex, 0, 2))),
       g |-> orWhite(parseInt16(substring2(hex, 2, 4))),
       b |-> orWhite(parseInt16(substring2(hex, 4, 6)))]

\* a resize that flattens onto the background whatever the format
resizeImage_flattensAll(imageBuffer, width, height, format, hasAlpha, backgroundColor) ==
  LET size == fitInside(imageBuffer.width, imageBuffer.height, width, height)
  IN  [src |-> imageBuffer.src, width |-> size.width, height |-> size.height,
       format |-> format,
       flattened |-> <<parseBackgroundColor(backgroundColor)>>]

\* The encoded bytes resizeImage returns, kept as what determines them: the
\* source, the size, the format and, for a jpeg of an image with alpha, the
\* colour it is flattened onto.
resizeImage(imageBuffer, width, height, format, hasAlpha, backgroundColor) ==
  LET size == fitInside(imageBuffer.width, imageBuffer.height, width, height)
      bgColor == parseBackgroundColor(backgroundColor)
  IN  [src |-> imageBuffer.src, width |-> size.width, height |-> size.height,
       format |-> format,
       flattened |-> IF format \in {"jpeg", "jpg"} /\ hasAlpha
                       THEN <<bgColor>> ELSE Null]

\* The data URL `data:${mime};base64,${bytes}`.
dataUrl(mime, bytes) == <<"data:", mime, ";base64,", bytes>>

defaultBackground == <<"#", "f", "f", "f", "f", "f", "f">>

(***************************************************************************)
(* processSingleImage                                                      *)
(***************************************************************************)
\* How one attempt can end once the download has been started.  "analyzefail" is
\* a metadata error inside hasTransparency, which answers false and goes on.
Outcomes == {"ok", "dlfail", "analyzefail", "resizefail"}

E_download == "HTTP 404"

E_resize == "Resize failed: Input buffer contains unsupported image format"

E_noUrl == "Cannot read properties of undefined (reading 'lastIndexOf')"

\* a failure record that loses the message
failedResult_noError(file, message) ==
  [resizedUrl |-> Null, isResized |-> FALSE] @@ file

\* { ...file, resizedUrl: null, isResized: false, error: message }
failedResult(file, message) ==
  [resizedUrl |-> Null, isResized |-> FALSE, error |-> message] @@ file

\* The synchronous head of processSingleImage: it throws (isSupportedFormat on an
\* undefined URL), returns at once (unsupported format) or starts the download.
processSingleImageStart(file) ==
  IF "fileUrl" \notin DOMAIN file THEN [kind |-> "throw", message |-> E_noUrl]
  ELSE IF ~isSupportedFormat(file.fileUrl)
    THEN [kind |-> "return",
          value |-> [resizedUrl |-> Null, isResized |-> FALSE,
                     message |-> "Unsupported format"] @@ file]
    ELSE [kind |-> "await"]

\* hasTransparency: the alpha channel of the image, false when the metadata
\* cannot be read.
hasTransparency(imageBuffer, outcome) ==
  IF outcome = "analyzefail" THEN FALSE ELSE imageBuffer.hasAlpha

\* The rest of processSingleImage, once the download has ended as `outcome`.
processSingleImageEnd(file, folderName, width, height, backgroundColor, outcome) ==
  IF outcome = "dlfail" THEN failedResult(file, E_download)
  ELSE IF outcome = "resizefail" \/ resizeRejects(width, height)
    THEN failedResult(file, E_resize)
  ELSE
    LET imageBuffer == [src |-> file.fileUrl] @@ SourceImage(file.fileUrl)
        hasAlpha == hasTransparency(imageBuffer, outcome)
        outputFormat == determineOutputFormat(file.fileUrl, hasAlpha)
        resizedBuffer == resizeImage(imageBuffer, width, height, outputFormat,
                                     hasAlpha, backgroundColor)
    IN  [resizedUrl |-> dataUrl(getMimeTypeForFormat(outputFormat), resizedBuffer),
         isResized |-> TRUE,
         isCached |-> FALSE,
         dimensions |-> [width |-> resizedBuffer.width, height |-> resizedBuffer.height],
         hasTransparency |-> hasAlpha,
         outputFormat |-> outputFormat] @@ file

(***************************************************************************)
(* The NodeCache behind this.cache: key -> [v: value, t: expiry time]       *)
(***************************************************************************)
stdTTL == 3600

checkperiod == 1800

EmptyCache == [k \in {} |-> Null]

\* a lookup that never finds an entry expired
cacheExpired_never(entry, t) == FALSE

\* NodeCache._check: the entry has a time to live and it is over
cacheExpired(entry, t) == entry.t # 0 /\ entry.t < t

\* cache.has(key): an expired entry counts as absent
cacheHas(c, key, t) == key \in DOMAIN c /\ ~cacheExpired(c[key], t)

\* the cache after has(key) or get(key): the lookup deletes the entry it finds expired
cacheChecked(c, key, t) ==
  IF key \in DOMAIN c /\ cacheExpired(c[key], t)
    THEN [k \in DOMAIN c \ {key} |-> c[k]]
    ELSE c

cacheGet(c, key) == c[key].v

\* the counters of a new or flushed NodeCache
NoStats == [hits |-> 0, misses |-> 0]

\* the counters after get(key): a hit when the key is held and not expired, a
\* miss otherwise; has(key) counts nothing
statsAfterGet(s, c, key, t) ==
  IF cacheHas(c, key, t) THEN [s EXCEPT !.hits = @ + 1] ELSE [s EXCEPT !.misses = @ + 1]

\* a set that keeps the entry a key already has
cacheSet_ifAbsent(c, key, value, t) ==
  [k \in DOMAIN c \cup {key} |->
     IF k \in DOMAIN c THEN c[k] ELSE [v |-> value, t |-> t + stdTTL]]

\* this.cache.set(key, value): the entry of the key is replaced
cacheSet(c, key, value, t) ==
  [k \in DOMAIN c \cup {key} |-> IF k = key THEN [v |-> value, t |-> t + stdTTL] ELSE c[k]]

cacheDel(c, keys) == [k \in DOMAIN c \ keys |-> c[k]]

\* the periodic check of NodeCache: every expired entry is deleted
cacheSweep(c, t) == cacheDel(c, {k \in DOMAIN c : cacheExpired(c[k], t)})

(***************************************************************************)
(* processFolderImages: the lookup pass and the write pass                 *)
(***************************************************************************)
\* a lookup that forgets the purge flag
isCacheHit_ignoresPurge(purgeCache, c, cacheKey, t) == cacheHas(c, cacheKey, t)

\* a lookup that finds no entry
isCacheHit_never(purgeCache, c, cacheKey, t) == FALSE

\* the condition of the first pass: !purgeCache && this.cache.has(cacheKey)
isCacheHit(purgeCache, c, cacheKey, t) == ~purgeCache /\ cacheHas(c, cacheKey, t)

\* a purge that drops the entry it bypasses
cacheAfterLookup_purgeDeletes(purgeCache, c, cacheKey, t) ==
  IF purgeCache THEN cacheDel(c, {cacheKey}) ELSE cacheChecked(c, cacheKey, t)

\* The cache after that condition has been evaluated: has() is called, and deletes
\* an expired entry, only when purgeCache is off.
cacheAfterLookup(purgeCache, c, cacheKey, t) ==
  IF purgeCache THEN c ELSE cacheChecked(c, cacheKey, t)

\* a hit that holds the cached data alone
cachedResult_dataOnly(file, cachedData) ==
  [resizedUrl |-> cachedData.dataUrl,
   isResized |-> TRUE,
   isCached |-> TRUE,
   dimensions |-> cachedData.dimensions,
   hasTransparency |-> cachedData.hasTransparency,
   outputFormat |-> cachedData.outputFormat]

\* { ...file, resizedUrl: cachedData.dataUrl, isResized: true, isCached: true, ... }
cachedResult(file, cachedData) ==
  [resizedUrl |-> cachedData.dataUrl,
   isResized |-> TRUE,
   isCached |-> TRUE,
   dimensions |-> cachedData.dimensions,
   hasTransparency |-> cachedData.hasTransparency,
   outputFormat |-> cachedData.outputFormat] @@ file

RECURSIVE lookupPass(_, _, _, _, _, _, _, _)
\* First pass over files[i..]: st = [cache, stats, processedFiles, toProcess].
lookupPass(files, i, folderName, width, height, purgeCache, st, t) ==
  IF i > Len(files) THEN st
  ELSE
    LET file == files[i]
        cacheKey == generateCacheKey(folderName, width, height, file.fileUrl)
        hit == isCacheHit(purgeCache, st.cache, cacheKey, t)
        c2 == cacheAfterLookup(purgeCache, st.cache, cacheKey, t)
    IN  lookupPass(files, i + 1, folderName, width, height, purgeCache,
          IF hit
            THEN [cache |-> c2,
                  stats |-> statsAfterGet(st.stats, c2, cacheKey, t),
                  processedFiles |-> Append(st.processedFiles,
                                            cachedResult(file, cacheGet(c2, cacheKey))),
                  toProcess |-> st.toProcess]
            ELSE [cache |-> c2,
                  stats |-> st.stats,
                  processedFiles |-> st.processedFiles,
                  toProcess |-> Append(st.toProcess, file)],
          t)

\* a write pass that caches nothing
shouldCache_never(result) == FALSE

\* if (result.isResized && result.resizedUrl)
shouldCache(result) == result.isResized /\ result.resizedUrl # Null

\* an entry whose format is not the one of the result
cacheEntry_fixedFormat(result, t) ==
  [dataUrl |-> result.resizedUrl,
   dimensions |-> result.dimensions,
   hasTransparency |-> result.hasTransparency,
   outputFormat |-> "gif",
   timestamp |-> t]

\* the value written for a result
cacheEntry(result, t) ==
  [dataUrl |-> result.resizedUrl,
   dimensions |-> result.dimensions,
   hasTransparency |-> result.hasTransparency,
   outputFormat |-> result.outputFormat,
   timestamp |-> t]

\* processedFiles.push(result), in a version that drops the results that failed
pushResult_onlyResized(processedFiles, result) ==
  IF result.isResized THEN Append(processedFiles, result) ELSE processedFiles

\* processedFiles.push(result)
pushResult(processedFiles, result) == Append(processedFiles, result)

RECURSIVE writePass(_, _, _, _, _, _, _)
\* Second pass over results[i..]: st = [cache, processedFiles].
writePass(results, i, folderName, width, height, st, t) ==
  IF i > Len(results) THEN st
  ELSE
    LET result == results[i]
        c2 == IF shouldCache(result)
                THEN cacheSet(st.cache,
                              generateCacheKey(folderName, width, height, result.fileUrl),
                              cacheEntry(result, t), t)
                ELSE st.cache
    IN  writePass(results, i + 1, folderName, width, height,
          [cache |-> c2, processedFiles |-> pushResult(st.processedFiles, result)], t)

(***************************************************************************)
(* Calls in flight                                                         *)
(***************************************************************************)
\* options.batchSize of the modelled service (the default is 10)
batchSize == 2

\* the default of the retries parameter of processSingleImageWithRetry
maxRetries == 2

MaxFiles == 3

\* the hits counted before the next flush: a lookup that would count more is not
\* started
MaxHits == 2

\* The requests in flight.  Under Spec one request runs at a time, interleaved
\* with the cache's administration.
Calls == {1}

\* One promise of processSingleImageWithRetry (or of processSingleImage, for a
\* call by name).  outcomes and waits record what the attempts did; lapsed, in the
\* call, records the keys whose entries the lookup found expired, and delays
\* counts the 10 ms pauses processBatches has taken; evicted records the items
\* that were being processed when a clear of the cache covered their key.
NewItem ==
  [pc |-> "pending", attempt |-> 0, outcomes |-> <<>>, waits |-> <<>>, value |-> <<>>]

NoCall ==
  [op |-> "none", pc |-> "idle", files |-> <<>>, folderName |-> <<>>,
   width |-> Null, height |-> Null, purgeCache |-> FALSE, imageName |-> "",
   processedFiles |-> <<>>, toProcess |-> <<>>, i |-> 0, items |-> <<>>,
   results |-> <<>>, ret |-> <<>>, lapsed |-> {}, delays |-> 0, evicted |-> {}]

\* a catch block that rethrows after the last attempt
onAttemptThrew_rethrows(item, file, message) ==
  IF item.attempt = maxRetries
    THEN [item EXCEPT !.pc = "rejected",
                      !.outcomes = Append(@, "threw"),
                      !.value = <<message>>]
    ELSE [item EXCEPT !.pc = "backoff",
                      !.outcomes = Append(@, "threw"),
                      !.waits = Append(@, (2 ^ item.attempt) * 1000)]

\* The catch block of processSingleImageWithRetry.
onAttemptThrew(item, file, message) ==
  IF item.attempt = maxRetries
    THEN [item EXCEPT !.pc = "settled",
                      !.outcomes = Append(@, "threw"),
                      !.value = <<failedResult(file, message)>>]
    ELSE [item EXCEPT !.pc = "backoff",
                      !.outcomes = Append(@, "threw"),
                      !.waits = Append(@, (2 ^ item.attempt) * 1000)]

\* One turn of the loop of processSingleImageWithRetry up to its await.
runAttempt(item, file) ==
  LET s == processSingleImageStart(file)
  IN  CASE s.kind = "await" -> [item EXCEPT !.pc = "inflight"]
        [] s.kind = "return" ->
             [item EXCEPT !.pc = "settled",
                          !.outcomes = Append(@, "unsupported"),
                          !.value = <<s.value>>]
        [] s.kind = "throw" -> onAttemptThrew(item, file, s.message)

\* a loop that downloads again after a failed result, once more than the ceiling
onAttemptReturned_retries(item, value, outcome) ==
  IF value.isResized \/ item.attempt > maxRetries
    THEN [item EXCEPT !.pc = "settled", !.outcomes = Append(@, outcome), !.value = <<value>>]
    ELSE [item EXCEPT !.attempt = @ + 1, !.outcomes = Append(@, outcome)]

\* The await of processSingleImage inside processSingleImageWithRetry has ended:
\* processSingleImage has returned its value, which is returned as it is.
onAttemptReturned(item, value, outcome) ==
  [item EXCEPT !.pc = "settled", !.outcomes = Append(@, outcome), !.value = <<value>>]

\* the indices (1-based) of files.slice(i, i + batchSize)
Chunk(i, n) == (i + 1)..Min(i + batchSize, n)

\* a map that starts every promise that has not been started
startBatch_all(call, i) ==
  [call EXCEPT !.pc = "batch", !.i = i,
     !.items = [k \in 1..Len(call.toProcess) |->
                  IF k > i /\ call.items[k].pc = "pending"
                    THEN runAttempt(NewItem, call.toProcess[k])
                    ELSE call.items[k]]]

\* batch.map(file => this.processSingleImageWithRetry(file, ...))
startBatch(call, i) ==
  [call EXCEPT !.pc = "batch", !.i = i,
     !.items = [k \in 1..Len(call.toProcess) |->
                  IF k \in Chunk(i, Len(call.toProcess))
                    THEN runAttempt(NewItem, call.toProcess[k])
                    ELSE call.items[k]]]

\* a loop that pauses after every chunk
delayAfterChunk_always(i, n) == TRUE

\* if (i + this.batchSize < files.length): the pause after the chunk at i
delayAfterChunk(i, n) == i + batchSize < n

\* What Promise.allSettled and the loop after it push for one promise.
settledResult(item) ==
  IF item.pc = "rejected"
    THEN [resizedUrl |-> Null, isResized |-> FALSE,
          error |-> IF item.value # <<>> THEN item.value[1] ELSE "Processing failed"]
    ELSE item.value[1]

RECURSIVE pushSettled_backwards(_, _, _, _)
\* a loop that pushes the results of a chunk from its last promise to its first
pushSettled_backwards(results, items, k, last) ==
  IF k > last THEN results
  ELSE Append(pushSettled_backwards(results, items, k + 1, last), settledResult(items[k]))

RECURSIVE pushSettled(_, _, _, _)
pushSettled(results, items, k, last) ==
  IF k > last THEN results
  ELSE pushSettled(Append(results, settledResult(items[k])), items, k + 1, last)

\* processBatches up to its first await.
enterProcessBatches(call) ==
  IF Len(call.toProcess) = 0
    THEN [call EXCEPT !.pc = "collected"]
    ELSE startBatch([call EXCEPT !.items = [k \in 1..Len(call.toProcess) |-> NewItem]], 0)

(***************************************************************************)
(* Inputs                                                                  *)
(***************************************************************************)
Folder_1 == <<"1">>

Folder_1_2 == <<"1", "_", "2">>

Folders == {Folder_1, Folder_1_2}

\* the files a listing of the folder can hold
FolderFiles(folderName) ==
  IF folderName = Folder_1 THEN {File_a1, File_c, File_d} ELSE {File_a1, File_bR}

\* the lists without repetition of at most MaxFiles elements of S
ListsOf(S) ==
  UNION {{f \in [1..n -> S] : \A a, b \in 1..n : a # b => f[a] # f[b]} : n \in 0..MaxFiles}

\* the items a direct caller of processBatches passes
BatchItems == {File_a1, File_d, File_e}

Dimensions == {[width |-> Num(100), height |-> Null]}

ImageNames == {File_a1.fileName, File_bR.fileName, File_c.fileName, File_d.fileName}

(***************************************************************************)
(* History of the successful resizes                                       *)
(***************************************************************************)
Request(folderName, width, height, url) == <<folderName, width, height, url>>

RequestKey(q) == generateCacheKey(q[1], q[2], q[3], q[4])

\* the requests whose results the write pass has cached
RECURSIVE recordResized(_, _, _, _, _, _)
recordResized(h, results, i, folderName, width, height) ==
  IF i > Len(results) THEN h
  ELSE
    LET r == results[i]
        q == Request(folderName, width, height, r.fileUrl)
        h2 == IF shouldCache(r)
                THEN [x \in DOMAIN h \cup {q} |->
                        IF x = q THEN [dimensions |-> r.dimensions,
                                       outputFormat |-> r.outputFormat]
                        ELSE h[x]]
                ELSE h
    IN  recordResized(h2, results, i + 1, folderName, width, height)

\* the history of the requests under whose key the cache c still holds an entry
stillHeld(h, c) ==
  LET keep == {q \in DOMAIN h : RequestKey(q) \in DOMAIN c}
  IN  [q \in keep |-> h[q]]

NoHistory == [q \in {} |-> Null]

NoProbe == [stage |-> "none"]

\* no response sent yet
NoResponse == [handler |-> "none", status |-> 0]

\* what a pending promise holds
NoValue == [bytes |-> 0, error |-> ""]

\* One call of downloadImage, before it is made.
\* pc: where the request is; idleSince: the last activity on the socket, which
\* the timer of request.setTimeout counts from; settled, value: the promise.
NoDownload ==
  [pc |-> "idle", clock |-> 0, started |-> 0, idleSince |-> 0, destroyed |-> FALSE,
   receivedBytes |-> 0, chunks |-> 0, settled |-> "pending", value |-> NoValue,
   settledAt |-> 0, late |-> 0]

(***************************************************************************)
(* Actions                                                                 *)
(***************************************************************************)
Init ==
  /\ cache = EmptyCache
  /\ now = 0
  /\ calls = [c \in Calls |-> NoCall]
  /\ resized = NoHistory
  /\ probe = NoProbe
  /\ stats = NoStats
  /\ admin = [cache |-> EmptyCache, stats |-> NoStats]
  /\ http = NoResponse
  /\ swept = 0
  /\ download = NoDownload

\* processFolderImages up to its first await (or to its return, when every file
\* is served from the cache).
ProcessFolderImages(c, files, folderName, width, height, purgeCache) ==
  /\ calls[c].pc = "idle"
  /\ LET st == lookupPass(files, 1, folderName, width, height, purgeCache,
                          [cache |-> cache, stats |-> stats, processedFiles |-> <<>>,
                           toProcess |-> <<>>],
                          now)
         call == [NoCall EXCEPT !.op = "folder", !.files = files,
                    !.folderName = folderName, !.width = width, !.height = height,
                    !.purgeCache = purgeCache,
                    !.processedFiles = st.processedFiles, !.toProcess = st.toProcess,
                    !.lapsed = DOMAIN cache \ DOMAIN st.cache]
     IN  /\ st.stats.hits <= MaxHits
         /\ cache' = st.cache
         /\ stats' = st.stats
         /\ calls' = [calls EXCEPT ![c] =
              IF Len(st.toProcess) = 0
                THEN [call EXCEPT !.pc = "done", !.ret = st.processedFiles]
                ELSE enterProcessBatches(call)]
         /\ resized' = stillHeld(resized, st.cache)
  /\ UNCHANGED <<now, probe, admin, http, swept, download>>

\* processBatches called on its own.
ProcessBatches(c, files, folderName, width, height) ==
  /\ calls[c].pc = "idle"
  /\ calls' = [calls EXCEPT ![c] =
       enterProcessBatches([NoCall EXCEPT !.op = "batches", !.files = files,
          !.folderName = folderName, !.width = width, !.height = height,
          !.toProcess = files])]
  /\ UNCHANGED <<cache, now, resized, probe, stats, admin, http, swept, download>>

\* The download, analysis and transcoding of item k end as `outcome`.
AttemptEnds(c, k, outcome) ==
  /\ calls[c].pc = "batch"
  /\ k \in DOMAIN calls[c].items
  /\ calls[c].items[k].pc = "inflight"
  /\ LET call == calls[c]
         value == processSingleImageEnd(call.toProcess[k], call.folderName, call.width,
                                        call.height, defaultBackground, outcome)
     IN  calls' = [calls EXCEPT ![c].items[k] = onAttemptReturned(@, value, outcome)]
  /\ UNCHANGED <<cache, now, resized, probe, stats, admin, http, swept, download>>

\* The backoff timer of item k fires: the next turn of the retry loop.
BackoffEnds(c, k) ==
  /\ calls[c].pc = "batch"
  /\ k \in DOMAIN calls[c].items
  /\ calls[c].items[k].pc = "backoff"
  /\ calls' = [calls EXCEPT ![c].items[k] =
       runAttempt([@ EXCEPT !.attempt = @ + 1], calls[c].toProcess[k])]
  /\ UNCHANGED <<cache, now, resized, probe, stats, admin, http, swept, download>>

\* Promise.allSettled of the current chunk resolves.
ChunkSettles(c) ==
  /\ calls[c].pc = "batch"
  /\ LET call == calls[c]
         n == Len(call.toProcess)
     IN  /\ \A k \in Chunk(call.i, n) : call.items[k].pc \in {"settled", "rejected"}
         /\ calls' = [calls EXCEPT ![c] =
              [call EXCEPT
                 !.results = pushSettled(@, call.items, call.i + 1,
                                         Min(call.i + batchSize, n)),
                 !.delays = IF delayAfterChunk(call.i, n) THEN @ + 1 ELSE @,
                 !.pc = IF delayAfterChunk(call.i, n) THEN "pause" ELSE "collected"]]
  /\ UNCHANGED <<cache, now, resized, probe, stats, admin, http, swept, download>>

\* The 10 ms pause between two chunks ends: the next chunk is started.
PauseEnds(c) ==
  /\ calls[c].pc = "pause"
  /\ calls' = [calls EXCEPT ![c] = startBatch(@, @.i + batchSize)]
  /\ UNCHANGED <<cache, now, resized, probe, stats, admin, http, swept, download>>

\* processFolderImages after processBatches: the write pass and the return.
FolderReturns(c) ==
  /\ calls[c].pc = "collected"
  /\ calls[c].op = "folder"
  /\ LET call == calls[c]
         st == writePass(call.results, 1, call.folderName, call.width, call.height,
                         [cache |-> cache, processedFiles |-> call.processedFiles], now)
     IN  /\ cache' = st.cache
         /\ calls' = [calls EXCEPT ![c] =
              [call EXCEPT !.pc = "done", !.processedFiles = st.processedFiles,
                           !.ret = st.processedFiles]]
         /\ resized' = recordResized(resized, call.results, 1, call.folderName,
                                      call.width, call.height)
  /\ UNCHANGED <<now, probe, stats, admin, http, swept, download>>

\* processBatches returns its results to a direct caller.
BatchesReturns(c) ==
  /\ calls[c].pc = "collected"
  /\ calls[c].op = "batches"
  /\ calls' = [calls EXCEPT ![c].pc = "done", ![c].ret = calls[c].results]
  /\ UNCHANGED <<cache, now, resized, probe, stats, admin, http, swept, download>>

\* new Error(`Image "${imageName}" not found in folder "${folderName}"`)
E_notFound == "Image not found in folder"

\* a search that falls back on the first file of the list
findByName_firstFile(files, imageName) == IF Len(files) > 0 THEN 1 ELSE 0

\* files.find(file => file.fileName === imageName): the index of the first match, 0
\* when there is none.
findByName(files, imageName) ==
  IF \E j \in 1..Len(files) : files[j].fileName = imageName
    THEN CHOOSE j \in 1..Len(files) :
           /\ files[j].fileName = imageName
           /\ \A m \in 1..(j - 1) : files[m].fileName # imageName
    ELSE 0

\* The end of processSingleImageByName: the result is cached if successful, and
\* returned.  st = [cache, ret].
finishByName(c, cacheKey, result, t) ==
  [cache |-> IF shouldCache(result) THEN cacheSet(c, cacheKey, cacheEntry(result, t), t)
             ELSE c,
   ret |-> <<result>>]

\* processSingleImageByName up to its await of processSingleImage; the call ends
\* here when the name is absent, on a cache hit and for an unsupported format.
ProcessSingleImageByName(c, folderName, imageName, files, width, height, purgeCache) ==
  /\ calls[c].pc = "idle"
  /\ LET j == findByName(files, imageName)
         call == [NoCall EXCEPT !.op = "byName", !.files = files,
                    !.folderName = folderName, !.width = width, !.height = height,
                    !.purgeCache = purgeCache, !.imageName = imageName]
     IN  IF j = 0
           THEN /\ calls' = [calls EXCEPT ![c] =
                     [call EXCEPT !.pc = "threw", !.ret = <<E_notFound>>]]
                /\ UNCHANGED <<cache, stats>>
           ELSE
             LET targetFile == files[j]
                 cacheKey == generateCacheKey(folderName, width, height, targetFile.fileUrl)
                 c2 == cacheAfterLookup(purgeCache, cache, cacheKey, now)
                 s == processSingleImageStart(targetFile)
                 started == [call EXCEPT !.toProcess = <<targetFile>>,
                                         !.lapsed = DOMAIN cache \ DOMAIN c2]
             IN  IF isCacheHit(purgeCache, cache, cacheKey, now)
                   THEN /\ stats.hits < MaxHits
                        /\ cache' = c2
                        /\ stats' = statsAfterGet(stats, c2, cacheKey, now)
                        /\ calls' = [calls EXCEPT ![c] =
                             [call EXCEPT !.pc = "done",
                                !.ret = <<cachedResult(targetFile, cacheGet(c2, cacheKey))>>]]
                   ELSE CASE s.kind = "await" ->
                               /\ cache' = c2
                               /\ UNCHANGED stats
                               /\ calls' = [calls EXCEPT ![c] =
                                    [started EXCEPT !.pc = "single",
                                       !.items = <<[NewItem EXCEPT !.pc = "inflight"]>>]]
                          [] s.kind = "return" ->
                               LET st == finishByName(c2, cacheKey, s.value, now)
                               IN  /\ cache' = st.cache
                                   /\ UNCHANGED stats
                                   /\ calls' = [calls EXCEPT ![c] =
                                        [started EXCEPT !.pc = "done", !.ret = st.ret,
                                           !.items = <<[NewItem EXCEPT
                                              !.pc = "settled",
                                              !.outcomes = <<"unsupported">>,
                                              !.value = <<s.value>>]>>]]
                          [] s.kind = "throw" ->
                               /\ cache' = c2
                               /\ UNCHANGED stats
                               /\ calls' = [calls EXCEPT ![c] =
                                    [started EXCEPT !.pc = "threw", !.ret = <<s.message>>]]
  /\ resized' = stillHeld(resized, cache')
  /\ UNCHANGED <<now, probe, admin, http, swept, download>>

\* The download, analysis and transcoding of a call by name end as `outcome`: the
\* rest of processSingleImageByName runs.
SingleEnds(c, outcome) ==
  /\ calls[c].pc = "single"
  /\ LET call == calls[c]
         targetFile == call.toProcess[1]
         cacheKey == generateCacheKey(call.folderName, call.width, call.height,
                                      targetFile.fileUrl)
         \* processSingleImage(targetFile, folderName, width, height): no background,
         \* so resizeImage uses its default
         result == processSingleImageEnd(targetFile, call.folderName, call.width,
                                         call.height, defaultBackground, outcome)
         st == finishByName(cache, cacheKey, result, now)
     IN  /\ cache' = st.cache
         /\ calls' = [calls EXCEPT ![c] =
              [call EXCEPT !.pc = "done", !.ret = st.ret,
                           !.items = <<onAttemptReturned(call.items[1], result, outcome)>>]]
         /\ resized' = recordResized(resized, <<result>>, 1, call.folderName,
                                      call.width, call.height)
  /\ UNCHANGED <<now, probe, stats, admin, http, swept, download>>

\* The caller has taken the result (or the error).
Release(c) ==
  /\ calls[c].pc \in {"done", "threw"}
  /\ calls' = [calls EXCEPT ![c] = NoCall]
  /\ UNCHANGED <<cache, now, resized, probe, stats, admin, http, swept, download>>

\* a clearing that only matches the keys of one URL of the folder
clearFolderCache_oneUrl(c, folderName) ==
  cacheDel(c, {key \in DOMAIN c :
                 /\ includes(key, S_resize \o folderName \o <<"_">>)
                 /\ includes(key, <<"_">> \o urlHashes[Url_a1])})

clearFolderCache(c, folderName) ==
  cacheDel(c, {key \in DOMAIN c : includes(key, S_resize \o folderName \o <<"_">>)})

\* the items of a call that writes to the cache whose processing has started,
\* while the call waits for a download or for the pause between two chunks
Underway(call) ==
  IF call.op \in {"folder", "byName"} /\ call.pc \in {"batch", "pause", "single"}
    THEN {k \in DOMAIN call.items : call.items[k].pc # "pending"}
    ELSE {}

\* history: the calls note the items under way whose key a clear covers, which
\* is a key that includes the pattern (every key includes the empty pattern)
noteEviction(cs, pattern) ==
  [c \in DOMAIN cs |->
     [cs[c] EXCEPT !.evicted =
        @ \cup {k \in Underway(cs[c]) :
                  includes(generateCacheKey(cs[c].folderName, cs[c].width, cs[c].height,
                                            cs[c].toProcess[k].fileUrl), pattern)}]]

ClearFolderCache(folderName) ==
  /\ cache' = clearFolderCache(cache, folderName)
  /\ calls' = noteEviction(calls, S_resize \o folderName \o <<"_">>)
  /\ cache' # cache \/ calls' # calls
  /\ resized' = stillHeld(resized, cache')
  /\ UNCHANGED <<now, probe, stats, admin, http, swept, download>>

\* getCacheStats() on a cache with data c and counters s.  hitRate, the quotient
\* hits / (hits + misses) || 0, is kept as <<numerator, denominator>>.
getCacheStats(c, s) ==
  [keys |-> Cardinality(DOMAIN c),
   hits |-> s.hits,
   misses |-> s.misses,
   hitRate |-> IF s.hits + s.misses = 0 THEN <<0, 1>> ELSE <<s.hits, s.hits + s.misses>>]

\* NodeCache.flushAll(): the data and the counters are reset and the periodic
\* check is restarted
flushAll(t) == [cache |-> EmptyCache, stats |-> NoStats, swept |-> t]

ClearAllCache ==
  /\ calls' = noteEviction(calls, <<>>)
  /\ cache # EmptyCache \/ stats # NoStats \/ calls' # calls
  /\ cache' = flushAll(now).cache
  /\ stats' = flushAll(now).stats
  /\ swept' = flushAll(now).swept
  /\ resized' = NoHistory
  /\ UNCHANGED <<now, probe, admin, http, download>>

\* the number of steps of the clock
MaxTicks == 4

\* the clock advances by one check period
TickStep == checkperiod

MaxTime == MaxTicks * TickStep

\* Time passes.
Tick ==
  /\ now + TickStep <= MaxTime
  /\ now' = now + TickStep
  /\ UNCHANGED <<cache, calls, resized, probe, stats, admin, http, swept, download>>

\* The periodic check of this.cache, no earlier than checkperiod after the last.
Sweep ==
  /\ now >= swept + checkperiod
  /\ cache' = cacheSweep(cache, now)
  /\ swept' = now
  /\ resized' = stillHeld(resized, cache')
  /\ UNCHANGED <<now, calls, probe, stats, admin, http, download>>

Next ==
  \/ \E c \in Calls, folderName \in Folders, d \in Dimensions, purgeCache \in BOOLEAN :
       \E files \in ListsOf(FolderFiles(folderName)) :
         ProcessFolderImages(c, files, folderName, d.width, d.height, purgeCache)
  \/ \E c \in Calls, d \in Dimensions :
       \E files \in ListsOf(BatchItems) :
         ProcessBatches(c, files, Folder_1, d.width, d.height)
  \/ \E c \in Calls, folderName \in Folders, d \in Dimensions, purgeCache \in BOOLEAN :
       \E files \in ListsOf(FolderFiles(folderName)), imageName \in ImageNames :
         ProcessSingleImageByName(c, folderName, imageName, files, d.width, d.height,
                                  purgeCache)
  \/ \E c \in Calls, outcome \in Outcomes : SingleEnds(c, outcome)
  \/ \E c \in Calls, k \in 1..MaxFiles, outcome \in Outcomes : AttemptEnds(c, k, outcome)
  \/ \E c \in Calls, k \in 1..MaxFiles : BackoffEnds(c, k)
  \/ \E c \in Calls : ChunkSettles(c)
  \/ \E c \in Calls : PauseEnds(c)
  \/ \E c \in Calls : FolderReturns(c)
  \/ \E c \in Calls : BatchesReturns(c)
  \/ \E c \in Calls : Release(c)
  \/ \E folderName \in Folders : ClearFolderCache(folderName)
  \/ ClearAllCache

Spec == Init /\ [][Next]_vars

(***************************************************************************)
(* generateCacheKey on its own: two requests are drawn and their keys made  *)
(***************************************************************************)
KeyRequests ==
  {Request(folderName, width, height, url) :
     folderName \in Folders, width \in {Null, Num(100)}, height \in {Null, Num(50)},
     url \in Urls}

InitKey ==
  /\ cache = EmptyCache
  /\ now = 0
  /\ calls = [c \in Calls |-> NoCall]
  /\ resized = NoHistory
  /\ probe \in {[stage |-> "args", a |-> q1, b |-> q2] : q1, q2 \in KeyRequests}
  /\ stats = NoStats
  /\ admin = [cache |-> EmptyCache, stats |-> NoStats]
  /\ http = NoResponse
  /\ swept = 0
  /\ download = NoDownload

GenerateKeys ==
  /\ probe.stage = "args"
  /\ probe' = [stage |-> "keys", a |-> probe.a, b |-> probe.b,
               keyA |-> RequestKey(probe.a), keyB |-> RequestKey(probe.b)]
  /\ UNCHANGED <<cache, now, calls, resized, stats, admin, http, swept, download>>

NextKey == GenerateKeys

SpecKey == InitKey /\ [][NextKey]_vars

(***************************************************************************)
(* generateCacheKey called twice with the same arguments, in two states of  *)
(* the service                                                              *)
(***************************************************************************)
InitPure ==
  /\ cache = EmptyCache
  /\ now = 0
  /\ calls = [c \in Calls |-> NoCall]
  /\ resized = NoHistory
  /\ probe \in {[stage |-> "args", a |-> q] : q \in KeyRequests}
  /\ stats = NoStats
  /\ admin = [cache |-> EmptyCache, stats |-> NoStats]
  /\ http = NoResponse
  /\ swept = 0
  /\ download = NoDownload

FirstKey ==
  /\ probe.stage = "args"
  /\ probe' = [stage |-> "first", a |-> probe.a, keyA |-> RequestKey(probe.a),
               entries |-> Cardinality(DOMAIN cache), at |-> now]
  /\ UNCHANGED <<cache, now, calls, resized, stats, admin, http, swept, download>>

SecondKey ==
  /\ probe.stage = "first"
  /\ probe' = [stage |-> "second", a |-> probe.a, keyA |-> probe.keyA,
               keyB |-> RequestKey(probe.a),
               changed |-> probe.entries # Cardinality(DOMAIN cache) /\ probe.at # now]
  /\ UNCHANGED <<cache, now, calls, resized, stats, admin, http, swept, download>>

\* The service works between the two calls: one image is requested by name, time
\* passes, the cache is flushed.
NextPure ==
  \/ FirstKey
  \/ SecondKey
  \/ \E purgeCache \in BOOLEAN :
       ProcessSingleImageByName(1, Folder_1, File_c.fileName, <<File_c>>, Num(100), Null,
                                purgeCache)
  \/ \E outcome \in {"ok", "dlfail"} : SingleEnds(1, outcome)
  \/ Release(1)
  \/ Tick
  \/ ClearAllCache

SpecPure == InitPure /\ [][NextPure]_vars

(***************************************************************************)
(* The service while time passes: one folder, two images                    *)
(***************************************************************************)
TimedFiles == {File_a1, File_c}

NextTime ==
  \/ \E purgeCache \in BOOLEAN, files \in ListsOf(TimedFiles) :
       ProcessFolderImages(1, files, Folder_1, Num(100), Null, purgeCache)
  \/ \E purgeCache \in BOOLEAN :
       ProcessSingleImageByName(1, Folder_1, File_a1.fileName, <<File_a1, File_c>>,
                                Num(100), Null, purgeCache)
  \/ \E outcome \in {"ok", "dlfail"} : SingleEnds(1, outcome)
  \/ \E k \in 1..MaxFiles, outcome \in {"ok", "dlfail"} : AttemptEnds(1, k, outcome)
  \/ ChunkSettles(1)
  \/ FolderReturns(1)
  \/ Release(1)
  \/ Tick
  \/ Sweep

SpecTime == Init /\ [][NextTime]_vars

(***************************************************************************)
(* The controllers: imageController.js and cacheController.js.  Each module *)
(* creates its own ImageResizeService: the image controller works on cache  *)
(* and stats, the cache controller on admin.                                *)
(***************************************************************************)
Folder_9 == <<"9">>

\* VercelBlobService.getBlobsByFolder: the files of the folder, or an error when
\* the store lists no blob for it
getBlobsByFolder(folderName) ==
  IF folderName = Folder_1 THEN [kind |-> "return", files |-> <<File_a1>>]
  ELSE IF folderName = Folder_1_2 THEN [kind |-> "return", files |-> <<File_bR>>]
  ELSE [kind |-> "throw", message |-> "Folder not found"]

Q_100 == <<"1", "0", "0">>

Q_0 == <<"0">>

Q_neg == <<"-", "5">>

Q_abc == <<"a", "b", "c">>

S_true == <<"t", "r", "u", "e">>

\* width ? parseInt(width) : null
parseDimension(q) == IF q # Null THEN parseInt(q) ELSE Null

\* (targetWidth && targetWidth <= 0) || (targetHeight && targetHeight <= 0)
notPositive(targetWidth, targetHeight) ==
  \/ Truthy(targetWidth) /\ targetWidth[1] <= 0
  \/ Truthy(targetHeight) /\ targetHeight[1] <= 0

\* res.status(status).json(...) of a handler, with what the handler had read
Response(handler, status, error, imageName, listed) ==
  [handler |-> handler, status |-> status, error |-> error, imageName |-> imageName,
   listed |-> listed]

\* getImage up to its await of processSingleImageByName, or to its response.
GetImage(c, folderName, imageName, width, height, purgeCache) ==
  /\ calls[c].pc = "idle"
  /\ LET targetWidth == parseDimension(width)
         targetHeight == parseDimension(height)
         shouldPurgeCache == purgeCache = S_true
         folderData == getBlobsByFolder(folderName)
         answer(status, error, listed) ==
           /\ http' = Response("getImage", status, error, imageName, listed)
           /\ UNCHANGED <<cache, now, calls, resized, probe, stats, admin, swept, download>>
     IN  IF width = Null /\ height = Null
           THEN answer(400, "Bad request", Null)
         ELSE IF notPositive(targetWidth, targetHeight)
           THEN answer(400, "Bad request", Null)
         ELSE IF folderData.kind = "throw"
           THEN answer(500, "Internal server error", Null)
         ELSE IF Len(folderData.files) = 0
           THEN answer(404, "Not found", <<>>)
         ELSE ProcessSingleImageByName(c, folderName, imageName, folderData.files,
                                       targetWidth, targetHeight, shouldPurgeCache)

\* getImage after processSingleImageByName: the catch block, the failed result or
\* the image.
GetImageResponds(c) ==
  /\ calls[c].op = "byName"
  /\ calls[c].pc \in {"done", "threw"}
  /\ http' = IF calls[c].pc = "threw"
               THEN Response("getImage", 500, "Internal server error",
                             calls[c].imageName, calls[c].files)
             ELSE IF ~calls[c].ret[1].isResized
               THEN Response("getImage", 500, "Processing failed",
                             calls[c].imageName, calls[c].files)
               ELSE Response("getImage", 200, "", calls[c].imageName, calls[c].files)
  /\ calls' = [calls EXCEPT ![c] = NoCall]
  /\ UNCHANGED <<cache, now, resized, probe, stats, admin, swept, download>>

\* getFolderImages up to its await of processFolderImages, or to its response.
GetFolderImages(c, folderName, width, height, purgeCache) ==
  /\ calls[c].pc = "idle"
  /\ LET targetWidth == parseDimension(width)
         targetHeight == parseDimension(height)
         shouldPurgeCache == purgeCache = S_true
         folderData == getBlobsByFolder(folderName)
         answer(status, error, listed) ==
           /\ http' = Response("getFolderImages", status, error, "", listed)
           /\ UNCHANGED <<cache, now, calls, resized, probe, stats, admin, swept, download>>
     IN  IF folderData.kind = "throw"
           THEN answer(500, "Internal server error", Null)
         ELSE IF Len(folderData.files) = 0
           THEN answer(404, "Not found", <<>>)
         ELSE IF width = Null /\ height = Null
           THEN answer(200, "", folderData.files)
         ELSE IF notPositive(targetWidth, targetHeight)
           THEN answer(400, "Bad request", folderData.files)
         ELSE ProcessFolderImages(c, folderData.files, folderName, targetWidth,
                                  targetHeight, shouldPurgeCache)

\* getFolderImages after processFolderImages.
GetFolderImagesResponds(c) ==
  /\ calls[c].op = "folder"
  /\ calls[c].pc = "done"
  /\ http' = Response("getFolderImages", 200, "", "", calls[c].files)
  /\ calls' = [calls EXCEPT ![c] = NoCall]
  /\ UNCHANGED <<cache, now, resized, probe, stats, admin, swept, download>>

\* clearCache of the cache controller: req.body.folderName given, or not (Null).
ClearCache(folderName) ==
  /\ admin' = IF folderName # Null
                THEN [admin EXCEPT !.cache = clearFolderCache(@, folderName)]
                ELSE [cache |-> flushAll(now).cache, stats |-> flushAll(now).stats]
  /\ http' = Response("clearCache", 200, "", "", folderName)
  /\ UNCHANGED <<cache, now, calls, resized, probe, stats, swept, download>>

\* getCacheStats of the cache controller.
GetCacheStats ==
  /\ http' = [handler |-> "getCacheStats", status |-> 200,
              data |-> getCacheStats(admin.cache, admin.stats)]
  /\ UNCHANGED <<cache, now, calls, resized, probe, stats, admin, swept, download>>

Widths == {Null, Q_100, Q_0, Q_neg, Q_abc}

Heights == {Null, Q_0}

NextHttp ==
  \/ \E folderName \in {Folder_1, Folder_9}, imageName \in {File_a1.fileName, File_c.fileName},
        width \in Widths, height \in Heights, purgeCache \in {Null, S_true} :
       GetImage(1, folderName, imageName, width, height, purgeCache)
  \/ GetImageResponds(1)
  \/ \E folderName \in {Folder_1, Folder_9}, width \in Widths, height \in Heights,
        purgeCache \in {Null, S_true} :
       GetFolderImages(1, folderName, width, height, purgeCache)
  \/ GetFolderImagesResponds(1)
  \/ \E outcome \in {"ok", "dlfail"} : SingleEnds(1, outcome)
  \/ \E k \in 1..MaxFiles, outcome \in {"ok", "dlfail"} : AttemptEnds(1, k, outcome)
  \/ ChunkSettles(1)
  \/ FolderReturns(1)
  \/ \E folderName \in {Null, Folder_1} : ClearCache(folderName)
  \/ GetCacheStats

SpecHttp == Init /\ [][NextHttp]_vars

(***************************************************************************)
(* The pure functions on their own: one is drawn with its arguments, and     *)
(* applied                                                                   *)
(***************************************************************************)
FormatArgs ==
  {[stage |-> "args", fn |-> "determineOutputFormat", url |-> url, hasAlpha |-> hasAlpha] :
     url \in TransparentUrls \cup OpaqueUrls, hasAlpha \in BOOLEAN}

NativeSizes == {<<200, 100>>, <<80, 80>>, <<3, 1000>>, <<1, 1>>}

Requested == {Null, Num(1), Num(50), Num(100), Num(200), Num(500)}

ResizeArgs ==
  {[stage |-> "args", fn |-> "resizeImage", sw |-> size[1], sh |-> size[2],
    width |-> width, height |-> height] :
     size \in NativeSizes, width \in Requested, height \in Requested}

S_000000 == <<"#", "0", "0", "0", "0", "0", "0">>

S_ff0000 == <<"#", "f", "f", "0", "0", "0", "0">>

Colors ==
  {S_000000, S_ff0000, <<"#", "f", "f", "f", "f", "f", "f">>,
   <<"1", "2", "a", "B", "0", "9">>, <<"#", "1", "2">>, <<"#", "g", "g", "1", "0", "z", "1">>,
   <<"#", "0", "1", "0", "2", "0", "3">>, <<>>}

ColorArgs ==
  {[stage |-> "args", fn |-> "parseBackgroundColor", backgroundColor |-> color] :
     color \in Colors}

\* the files and backgrounds processSingleImage is run on
PipelineArgs ==
  {[stage |-> "args", fn |-> "processSingleImage", url |-> url,
    backgroundColor |-> color, outcome |-> outcome] :
     url \in TransparentUrls \cup OpaqueUrls, color \in Colors,
     outcome \in {"ok", "analyzefail"}}

InitFn ==
  /\ cache = EmptyCache
  /\ now = 0
  /\ calls = [c \in Calls |-> NoCall]
  /\ resized = NoHistory
  /\ probe \in FormatArgs \cup ResizeArgs \cup ColorArgs \cup PipelineArgs
  /\ stats = NoStats
  /\ admin = [cache |-> EmptyCache, stats |-> NoStats]
  /\ http = NoResponse
  /\ swept = 0
  /\ download = NoDownload

\* determineOutputFormat(url, hasAlpha), and processSingleImage of the file behind
\* the URL when its download, analysis and resize succeed
DetermineOutputFormat ==
  /\ probe.stage = "args"
  /\ probe.fn = "determineOutputFormat"
  /\ probe' = [probe EXCEPT !.stage = "done"] @@
       [format |-> determineOutputFormat(probe.url, probe.hasAlpha),
        result |-> processSingleImageEnd([fileName |-> "f", fileUrl |-> probe.url],
                                         Folder_1, Num(100), Null, defaultBackground,
                                         "ok")]
  /\ UNCHANGED <<cache, now, calls, resized, stats, admin, http, swept, download>>

\* resizeImage of a source of sw x sh, and the dimensions of its output
ResizeImage ==
  /\ probe.stage = "args"
  /\ probe.fn = "resizeImage"
  /\ LET imageBuffer == [src |-> Url_c, width |-> probe.sw, height |-> probe.sh,
                         hasAlpha |-> FALSE]
         out == resizeImage(imageBuffer, probe.width, probe.height, "jpeg", FALSE,
                            defaultBackground)
     IN  probe' = [probe EXCEPT !.stage = "done"] @@
                    [dimensions |-> [width |-> out.width, height |-> out.height]]
  /\ UNCHANGED <<cache, now, calls, resized, stats, admin, http, swept, download>>

ParseBackgroundColor ==
  /\ probe.stage = "args"
  /\ probe.fn = "parseBackgroundColor"
  /\ probe' = [probe EXCEPT !.stage = "done"] @@
                [color |-> parseBackgroundColor(probe.backgroundColor)]
  /\ UNCHANGED <<cache, now, calls, resized, stats, admin, http, swept, download>>

\* processSingleImage of a file with the background and with the default one,
\* and the format and hasAlpha it gives to resizeImage
ProcessSingleImage ==
  /\ probe.stage = "args"
  /\ probe.fn = "processSingleImage"
  /\ LET file == [fileName |-> "f", fileUrl |-> probe.url]
         hasAlpha == hasTransparency(SourceImage(probe.url), probe.outcome)
     IN  probe' = [probe EXCEPT !.stage = "done"] @@
           [result |-> processSingleImageEnd(file, Folder_1, Num(100), Null,
                                             probe.backgroundColor, probe.outcome),
            resultDefault |-> processSingleImageEnd(file, Folder_1, Num(100), Null,
                                                    defaultBackground, probe.outcome),
            hasAlpha |-> hasAlpha,
            format |-> determineOutputFormat(probe.url, hasAlpha)]
  /\ UNCHANGED <<cache, now, calls, resized, stats, admin, http, swept, download>>

NextFn ==
  \/ DetermineOutputFormat
  \/ ResizeImage
  \/ ParseBackgroundColor
  \/ ProcessSingleImage

SpecFn == InitFn /\ [][NextFn]_vars

(***************************************************************************)
(* Two requests in flight at once, on the folder of the two colliding URLs   *)
(***************************************************************************)
Calls2 == {1, 2}

InitTwo ==
  /\ cache = EmptyCache
  /\ now = 0
  /\ calls = [c \in Calls2 |-> NoCall]
  /\ resized = NoHistory
  /\ probe = NoProbe
  /\ stats = NoStats
  /\ admin = [cache |-> EmptyCache, stats |-> NoStats]
  /\ http = NoResponse
  /\ swept = 0
  /\ download = NoDownload

NextTwo ==
  \/ \E c \in Calls2, purgeCache \in BOOLEAN :
       \E files \in ListsOf(FolderFiles(Folder_1_2)) :
         ProcessFolderImages(c, files, Folder_1_2, Num(100), Null, purgeCache)
  \/ \E c \in Calls2, purgeCache \in BOOLEAN :
       ProcessSingleImageByName(c, Folder_1_2, File_bR.fileName, <<File_a1, File_bR>>,
                                Num(100), Null, purgeCache)
  \/ \E c \in Calls2, outcome \in {"ok", "dlfail"} : SingleEnds(c, outcome)
  \/ \E c \in Calls2, k \in 1..MaxFiles, outcome \in {"ok", "dlfail"} :
       AttemptEnds(c, k, outcome)
  \/ \E c \in Calls2 : ChunkSettles(c)
  \/ \E c \in Calls2 : FolderReturns(c)
  \/ \E c \in Calls2 : Release(c)

SpecTwo == InitTwo /\ [][NextTwo]_vars

(***************************************************************************)
(* downloadImage: one GET and the promise that wraps it                     *)
(***************************************************************************)
\* this.downloadTimeout, in milliseconds
downloadTimeout == 15000

\* the ceiling of the data handler: 50 * 1024 * 1024 bytes
sizeLimit == 50 * 1024 * 1024

E_tooLarge == "File too large"

E_timeout == "Timeout"

E_socket == "socket hang up"

\* new Error(`HTTP ${response.statusCode}`)
httpError(statusCode) == IF statusCode = 404 THEN E_download ELSE "HTTP 500"

\* what a promise rejected with new Error(message) holds
Rejection(message) == [bytes |-> 0, error |-> message]

\* the chunks delivered to a data handler before the transfer is left alone
MaxChunks == 4

\* the milliseconds a download is followed for
MaxClock == 30000

ClockStep == 5000

\* the lengths of the chunks a server sends
ChunkSizes == {1, 25 * 1024 * 1024, sizeLimit}

\* a promise that takes the last resolve or reject it is given
settle_overwrites(d, kind, value) ==
  [d EXCEPT !.settled = kind, !.value = value, !.settledAt = d.clock,
            !.late = IF d.settled = "pending" THEN @ ELSE 1]

\* resolve(value) or reject(error): a promise takes the first of them and ignores
\* the later ones (late counts those).
settle(d, kind, value) ==
  IF d.settled = "pending"
    THEN [d EXCEPT !.settled = kind, !.value = value, !.settledAt = d.clock]
    ELSE [d EXCEPT !.late = 1]

\* request.destroy()
destroy(d) == [d EXCEPT !.destroyed = TRUE]

\* the timer of request.setTimeout is armed: the socket is open and has been idle
\* since idleSince
timerArmed(d) == d.pc \in {"requested", "receiving", "unread"} /\ ~d.destroyed

\* when the armed timer of d is due
deadline(d) == d.idleSince + downloadTimeout

\* downloadImage(url) up to the return of its promise
StartDownload ==
  /\ download.pc = "idle"
  /\ download' = [NoDownload EXCEPT !.pc = "requested"]
  /\ UNCHANGED <<cache, now, calls, resized, probe, stats, admin, http, swept>>

\* the callback of protocol.get: the response headers have arrived
OnResponse(statusCode) ==
  /\ download.pc = "requested"
  /\ ~download.destroyed
  /\ download' =
       IF statusCode # 200
         THEN settle([download EXCEPT !.pc = "unread", !.idleSince = download.clock],
                     "rejected", Rejection(httpError(statusCode)))
         ELSE [download EXCEPT !.pc = "receiving", !.idleSince = download.clock]
  /\ UNCHANGED <<cache, now, calls, resized, probe, stats, admin, http, swept>>

\* response.on('data')
OnData(length) ==
  /\ download.pc = "receiving"
  /\ ~download.destroyed
  /\ download.chunks < MaxChunks
  /\ LET d == [download EXCEPT !.receivedBytes = @ + length, !.chunks = @ + 1,
                               !.idleSince = download.clock]
     IN  download' = IF d.receivedBytes > sizeLimit
                       THEN settle(destroy(d), "rejected", Rejection(E_tooLarge))
                       ELSE d
  /\ UNCHANGED <<cache, now, calls, resized, probe, stats, admin, http, swept>>

\* response.on('end'): Buffer.concat(chunks, receivedBytes)
OnEnd ==
  /\ download.pc = "receiving"
  /\ ~download.destroyed
  /\ download' = settle([download EXCEPT !.pc = "closed"], "resolved",
                        [bytes |-> download.receivedBytes, error |-> ""])
  /\ UNCHANGED <<cache, now, calls, resized, probe, stats, admin, http, swept>>

\* response.on('error', reject): the connection breaks during the body, or the
\* response is aborted by request.destroy()
OnResponseError ==
  /\ download.pc = "receiving"
  /\ download' = settle([download EXCEPT !.pc = "closed"], "rejected", Rejection(E_socket))
  /\ UNCHANGED <<cache, now, calls, resized, probe, stats, admin, http, swept>>

\* request.on('error', reject): the connection fails before a response, or the
\* socket of a response that nobody reads breaks
OnRequestError ==
  /\ download.pc \in {"requested", "unread"}
  /\ download' = settle([download EXCEPT !.pc = "closed"], "rejected", Rejection(E_socket))
  /\ UNCHANGED <<cache, now, calls, resized, probe, stats, admin, http, swept>>

\* the callback of request.setTimeout: the socket has been idle for
\* downloadTimeout
OnTimeout ==
  /\ timerArmed(download)
  /\ download.clock >= deadline(download)
  /\ download' = settle(destroy(download), "rejected", Rejection(E_timeout))
  /\ UNCHANGED <<cache, now, calls, resized, probe, stats, admin, http, swept>>

\* Time passes, by ClockStep or up to the moment the armed timer is due: the
\* timer fires then, time does not pass it.
Elapse ==
  /\ download.pc # "idle"
  /\ download.clock < MaxClock
  /\ timerArmed(download) => download.clock < deadline(download)
  /\ LET next == Min(download.clock + ClockStep, MaxClock)
     IN  download' = [download EXCEPT !.clock =
           IF timerArmed(download) THEN Min(next, deadline(download)) ELSE next]
  /\ UNCHANGED <<cache, now, calls, resized, probe, stats, admin, http, swept>>

InitDownload ==
  /\ cache = EmptyCache
  /\ now = 0
  /\ calls = [c \in Calls |-> NoCall]
  /\ resized = NoHistory
  /\ probe = NoProbe
  /\ stats = NoStats
  /\ admin = [cache |-> EmptyCache, stats |-> NoStats]
  /\ http = NoResponse
  /\ swept = 0
  /\ download = NoDownload

NextDownload ==
  \/ StartDownload
  \/ \E statusCode \in {200, 404, 500} : OnResponse(statusCode)
  \/ \E length \in ChunkSizes : OnData(length)
  \/ OnEnd
  \/ OnResponseError
  \/ OnRequestError
  \/ OnTimeout
  \/ Elapse

SpecDownload == InitDownload /\ [][NextDownload]_vars

(***************************************************************************)
(* processFolderImages when every download ends and every timer fires       *)
(***************************************************************************)
NextLive ==
  \/ \E c \in Calls, purgeCache \in BOOLEAN :
       \E files \in ListsOf(FolderFiles(Folder_1)) :
         ProcessFolderImages(c, files, Folder_1, Num(100), Null, purgeCache)
  \/ \E c \in Calls, k \in 1..MaxFiles, outcome \in {"ok", "dlfail"} :
       AttemptEnds(c, k, outcome)
  \/ \E c \in Calls : ChunkSettles(c)
  \/ \E c \in Calls : PauseEnds(c)
  \/ \E c \in Calls : FolderReturns(c)
  \/ \E c \in Calls : Release(c)

\* Every download that was started ends, as a success or as a failure (an error,
\* the size abort or the timeout of downloadImage); the 10 ms timer fires; a
\* promise that can go on does.  The caller is free to come back or not.
Fairness ==
  /\ \A c \in Calls, k \in 1..MaxFiles :
       WF_vars(\E outcome \in {"ok", "dlfail"} : AttemptEnds(c, k, outcome))
  /\ \A c \in Calls : WF_vars(ChunkSettles(c))
  /\ \A c \in Calls : WF_vars(PauseEnds(c))
  /\ \A c \in Calls : WF_vars(FolderReturns(c))

SpecLive == Init /\ [][NextLive]_vars /\ Fairness

(***************************************************************************)
(* Properties                                                              *)
(***************************************************************************)
IsCachedResult(r) == "isCached" \in DOMAIN r /\ r.isCached

ErrorMessages == {E_download, E_resize, E_noUrl, "Processing failed"}

\* r carries an error message
HasError(r) == "error" \in DOMAIN r /\ r.error \in ErrorMessages

Last(seq) == seq[Len(seq)]

\* the number of times downloadImage has been called for an item
Downloads(item) ==
  Cardinality({a \in 1..Len(item.outcomes) : item.outcomes[a] \in Outcomes})
    + (IF item.pc = "inflight" THEN 1 ELSE 0)

FolderDone(c) == calls[c].op = "folder" /\ calls[c].pc = "done"

\* C1: processFolderImages returns exactly one result per input file, whatever
\* mix of cache hits, resizes, unsupported formats and failed downloads occurs.
C1_OneResultPerFile ==
  \A c \in Calls : FolderDone(c) => Len(calls[c].ret) = Len(calls[c].files)

C1_Witness ==
  \E c \in Calls :
    /\ FolderDone(c)
    /\ Len(calls[c].files) = 3
    /\ Len(calls[c].ret) = 3
    /\ \E j \in 1..3 : IsCachedResult(calls[c].ret[j])
    /\ \E j \in 1..3 : HasError(calls[c].ret[j])
    /\ \E j \in 1..3 : "message" \in DOMAIN calls[c].ret[j]

\* the items of a finished folder call whose only or last attempt failed to download
FailedDownloads(c) ==
  {k \in DOMAIN calls[c].items : Last(calls[c].items[k].outcomes) = "dlfail"}

\* C2: once processFolderImages has resized X for (folder, width, height) and
\* while an entry is held under the key of that request, a processFolderImages
\* call with the same folder, width, height and URL and purgeCache=false serves X
\* from the cache, with the dimensions and the outputFormat of that resize, and
\* does not download it.
C2_CacheRoundTrip ==
  [][\A c \in Calls :
       (calls[c].pc = "idle" /\ calls'[c].op = "folder" /\ ~calls'[c].purgeCache) =>
         LET call == calls'[c]
         IN  \A j \in 1..Len(call.files) :
               LET f == call.files[j]
                   q == Request(call.folderName, call.width, call.height, f.fileUrl)
               IN  q \in DOMAIN resized =>
                     /\ \E m \in 1..Len(call.processedFiles) :
                          LET r == call.processedFiles[m]
                          IN  /\ r.fileUrl = f.fileUrl
                              /\ IsCachedResult(r)
                              /\ r.dimensions = resized[q].dimensions
                              /\ r.outputFormat = resized[q].outputFormat
                     /\ \A k \in 1..Len(call.toProcess) : call.toProcess[k] # f
    ]_vars

\* C3: in a folder of N supported files of which exactly one fails to download
\* and the others can be processed, processFolderImages returns N results, exactly
\* one of them with isResized=false and an error, for the failing file; every
\* other file is returned resized, a fresh one exactly as processing it alone gives.
C3_PartialFailureIsolation ==
  \A c \in Calls :
    LET call == calls[c]
        n == Len(call.files)
    IN  ( /\ FolderDone(c)
          /\ \A j \in 1..n : isSupportedFormat(call.files[j].fileUrl)
          /\ Cardinality(FailedDownloads(c)) = 1
          /\ \A k \in DOMAIN call.items \ FailedDownloads(c) :
               Last(call.items[k].outcomes) \in {"ok", "analyzefail"} )
        =>
        /\ Len(call.ret) = n
        /\ Cardinality({j \in 1..Len(call.ret) : ~call.ret[j].isResized}) = 1
        /\ \A k \in FailedDownloads(c) :
             \E j \in 1..Len(call.ret) :
               /\ ~call.ret[j].isResized
               /\ HasError(call.ret[j])
               /\ call.ret[j].fileUrl = call.toProcess[k].fileUrl
        /\ \A k \in DOMAIN call.items \ FailedDownloads(c) :
             \E j \in 1..Len(call.ret) :
               call.ret[j] = processSingleImageEnd(call.toProcess[k], call.folderName,
                               call.width, call.height, defaultBackground,
                               Last(call.items[k].outcomes))
        /\ \A m \in 1..n :
             (\A k \in FailedDownloads(c) : call.toProcess[k] # call.files[m]) =>
               \E j \in 1..Len(call.ret) :
                 call.ret[j].fileUrl = call.files[m].fileUrl /\ call.ret[j].isResized

C3_Witness ==
  \E c \in Calls :
    /\ FolderDone(c)
    /\ Len(calls[c].files) = 2
    /\ \A j \in 1..2 : isSupportedFormat(calls[c].files[j].fileUrl)
    /\ Len(calls[c].toProcess) = 2
    /\ Cardinality(FailedDownloads(c)) = 1
    /\ \E k \in 1..2 : Last(calls[c].items[k].outcomes) = "ok"

\* C4: processSingleImageWithRetry and processBatches never reject: every item
\* settles with a result, a download or transcode failure and an exception being
\* returned as a value with isResized=false and error set to the failure message.
C4_NeverRaises ==
  \A c \in Calls :
    calls[c].op \in {"folder", "batches"} =>
      /\ calls[c].pc # "threw"
      /\ \A k \in DOMAIN calls[c].items :
           LET item == calls[c].items[k]
           IN  /\ item.pc # "rejected"
               /\ item.pc = "settled" =>
                    LET r == item.value[1]
                        last == Last(item.outcomes)
                    IN  /\ "isResized" \in DOMAIN r
                        /\ last = "dlfail" => ~r.isResized /\ HasError(r) /\ r.error = E_download
                        /\ last = "resizefail" => ~r.isResized /\ HasError(r) /\ r.error = E_resize
                        /\ last = "threw" => ~r.isResized /\ HasError(r) /\ r.error = E_noUrl
                        /\ last \in {"ok", "analyzefail"} => r.isResized
      /\ (calls[c].op = "batches" /\ calls[c].pc = "done") =>
           /\ Len(calls[c].ret) = Len(calls[c].files)
           /\ \A j \in 1..Len(calls[c].ret) : calls[c].ret[j] = calls[c].items[j].value[1]

C4_Witness ==
  \E c \in Calls :
    /\ calls[c].op = "batches"
    /\ calls[c].pc = "done"
    /\ \E j \in 1..Len(calls[c].ret) :
         /\ calls[c].items[j].outcomes = <<"threw", "threw", "threw">>
         /\ calls[c].ret[j].error = E_noUrl
    /\ \E j \in 1..Len(calls[c].ret) :
         /\ calls[c].items[j].outcomes = <<"resizefail">>
         /\ calls[c].ret[j].error = E_resize

FailureOutcomes == {"dlfail", "resizefail", "threw"}

\* C5: an item whose attempt fails is attempted again; it is reported failed only
\* after maxRetries + 1 failed attempts.
C5_FailedOnlyAfterAllAttempts ==
  \A c \in Calls :
    calls[c].op \in {"folder", "batches"} =>
      \A k \in DOMAIN calls[c].items :
        LET item == calls[c].items[k]
        IN  (item.pc = "settled" /\ Last(item.outcomes) \in FailureOutcomes) =>
              Len(item.outcomes) = maxRetries + 1

\* C6: after failed attempt k < maxRetries (0-indexed) the processor waits 2^k
\* seconds before the next attempt; after the last one it does not wait.
C6_BackoffAfterEachFailedAttempt ==
  \A c \in Calls :
    calls[c].op \in {"folder", "batches"} =>
      \A k \in DOMAIN calls[c].items :
        LET item == calls[c].items[k]
        IN  /\ Len(item.waits) <= maxRetries
            /\ \A a \in 1..Len(item.outcomes) :
                 (item.outcomes[a] \in FailureOutcomes /\ a - 1 < maxRetries) =>
                   /\ Len(item.waits) >= a
                   /\ item.waits[a] = (2 ^ (a - 1)) * 1000

\* C7: with purgeCache=true no file is served from the cache: downloadImage is
\* called for every requested file with a supported extension, also when an
\* entry is held under its key, and no result is marked as cached.
C7_PurgeBypassesCache ==
  \A c \in Calls :
    LET call == calls[c]
    IN  (call.purgeCache /\ call.op \in {"folder", "byName"} /\ call.pc # "threw") =>
          /\ call.op = "folder" => call.toProcess = call.files
          /\ call.op = "byName" =>
               call.toProcess = <<call.files[findByName(call.files, call.imageName)]>>
          /\ \A k \in DOMAIN call.items :
               (call.items[k].pc # "pending"
                  /\ isSupportedFormat(call.toProcess[k].fileUrl)) =>
                 Downloads(call.items[k]) >= 1
          /\ call.pc = "done" =>
               /\ \A j \in 1..Len(call.ret) : ~IsCachedResult(call.ret[j])
               /\ \A k \in 1..Len(call.toProcess) :
                    isSupportedFormat(call.toProcess[k].fileUrl) =>
                      Downloads(call.items[k]) >= 1

C7_Witness ==
  \E c \in Calls :
    LET call == calls[c]
    IN  /\ call.purgeCache
        /\ call.op \in {"folder", "byName"}
        /\ \E k \in DOMAIN call.items :
             /\ call.items[k].pc = "inflight"
             /\ cacheHas(cache,
                         generateCacheKey(call.folderName, call.width, call.height,
                                          call.toProcess[k].fileUrl), now)

\* the results a call has produced by processing
Produced(call) ==
  IF call.op = "folder" THEN call.results
  ELSE IF call.op = "byName" /\ call.pc = "done" THEN call.ret
  ELSE <<>>

\* C8: a purgeCache=true call never deletes a cache entry, and changes the entry
\* of a key only by writing the successful result of reprocessing that key: when
\* reprocessing fails the entry held before is held after.  A purgeCache=false
\* call serves the entries it finds.
C8_PurgeKeepsEntries ==
  [][\A c \in Calls :
       LET call == calls'[c]
           keyOf(r) == generateCacheKey(call.folderName, call.width, call.height, r.fileUrl)
           written == {j \in 1..Len(Produced(call)) : shouldCache(Produced(call)[j])}
       IN  /\ (call.purgeCache /\ [call EXCEPT !.evicted = {}] # [calls[c] EXCEPT !.evicted = {}]) =>
                 /\ \A k \in DOMAIN cache : k \in DOMAIN cache'
                 /\ \A k \in DOMAIN cache' :
                      (k \notin DOMAIN cache \/ cache'[k] # cache[k]) =>
                        \E j \in written :
                          /\ keyOf(Produced(call)[j]) = k
                          /\ cache'[k].v = cacheEntry(Produced(call)[j], now)
                 /\ (call.pc = "done" /\ calls[c].pc # "done") =>
                      \A j \in written :
                        /\ keyOf(Produced(call)[j]) \in DOMAIN cache'
                        /\ \E j2 \in written :
                             /\ keyOf(Produced(call)[j2]) = keyOf(Produced(call)[j])
                             /\ cache'[keyOf(Produced(call)[j])].v
                                  = cacheEntry(Produced(call)[j2], now)
           /\ (calls[c].pc = "idle" /\ call.op = "folder" /\ ~call.purgeCache) =>
                 \A j \in 1..Len(call.files) :
                   cacheHas(cache, keyOf(call.files[j]), now) =>
                     \E m \in 1..Len(call.processedFiles) :
                       call.processedFiles[m]
                         = cachedResult(call.files[j], cache[keyOf(call.files[j])].v)
    ]_vars

C8_Witness ==
  \E c \in Calls :
    LET call == calls[c]
    IN  /\ call.purgeCache
        /\ call.pc = "done"
        /\ \E j \in 1..Len(call.ret) :
             /\ HasError(call.ret[j])
             /\ cacheHas(cache,
                         generateCacheKey(call.folderName, call.width, call.height,
                                          call.ret[j].fileUrl), now)

\* the three shapes of a result
FreshSuccess(r) ==
  /\ r.isResized
  /\ "isCached" \in DOMAIN r /\ ~r.isCached
  /\ r.resizedUrl # Null
  /\ "error" \notin DOMAIN r

CachedHit(r) ==
  /\ r.isResized
  /\ IsCachedResult(r)
  /\ r.resizedUrl # Null
  /\ "error" \notin DOMAIN r

Failure(r) ==
  /\ ~r.isResized
  /\ r.resizedUrl = Null
  /\ HasError(r)

\* C9: every result returned is a fresh success, a cached hit or a failure; a
\* result with isResized=false has resizedUrl=null and an error, also for a file
\* whose extension is not supported.
C9_ResultShape ==
  \A c \in Calls :
    calls[c].pc = "done" =>
      \A j \in 1..Len(calls[c].ret) :
        LET r == calls[c].ret[j]
        IN  FreshSuccess(r) \/ CachedHit(r) \/ Failure(r)

\* C10: generateCacheKey gives different keys to different (folderName, width,
\* height, imageUrl).
C10_NoKeyCollision ==
  (probe.stage = "keys" /\ probe.a # probe.b) => probe.keyA # probe.keyB

CallKey(call, file) ==
  generateCacheKey(call.folderName, call.width, call.height, file.fileUrl)

\* the entry under the key is held and was written at most stdTTL seconds ago
FreshEntry(key) == key \in DOMAIN cache /\ now <= cache[key].v.timestamp + stdTTL

\* the files a starting call serves from the cache
ServedFromCache(call) ==
  {call.processedFiles[j].fileUrl : j \in 1..Len(call.processedFiles)}
    \cup {call.ret[j].fileUrl : j \in {i \in 1..Len(call.ret) :
                                        call.pc = "done" /\ IsCachedResult(call.ret[i])}}

\* the files a starting call looks up
LookedUp(call) ==
  IF call.op = "folder" THEN {call.files[j] : j \in 1..Len(call.files)}
  ELSE IF call.op = "byName" /\ findByName(call.files, call.imageName) # 0
    THEN {call.files[findByName(call.files, call.imageName)]}
    ELSE {}

\* C12: a lookup of processFolderImages or processSingleImageByName serves a file
\* from the cache only if the entry under its key was written at most 3600 s
\* before, whether or not the periodic check has run; with purgeCache off it
\* serves every file whose entry is that recent (a later write restarts the
\* period), and every other file is processed again.
C12_TtlExpiry ==
  [][\A c \in Calls :
       (calls[c].pc = "idle" /\ calls'[c].pc # "idle") =>
         \A file \in LookedUp(calls'[c]) :
           /\ file.fileUrl \in ServedFromCache(calls'[c]) <=>
                (~calls'[c].purgeCache /\ FreshEntry(CallKey(calls'[c], file)))
           /\ file.fileUrl \notin ServedFromCache(calls'[c]) =>
                \/ \E j \in 1..Len(calls'[c].toProcess) : calls'[c].toProcess[j] = file
                \/ calls'[c].pc = "threw"]_vars

\* an entry written at 0 is found expired, with no periodic check since, by a
\* lookup that processes the file again and caches the new result
C12_Witness ==
  \E c \in Calls :
    /\ calls[c].pc = "done"
    /\ ~calls[c].purgeCache
    /\ swept = 0
    /\ download = NoDownload
    /\ calls[c].lapsed # {}
    /\ \E j \in 1..Len(calls[c].ret) :
         /\ FreshSuccess(calls[c].ret[j])
         /\ CallKey(calls[c], calls[c].ret[j]) \in calls[c].lapsed
         /\ FreshEntry(CallKey(calls[c], calls[c].ret[j]))

\* the keys generateCacheKey derives with the folder name
derivedKeys ==
  [folderName \in Folders |->
     {RequestKey(q) : q \in {r \in KeyRequests : r[1] = folderName}}]

DerivedKeys(folderName) == derivedKeys[folderName]

\* C13: clearFolderCache(F) removes every entry whose key was derived with F, for
\* every width, height and URL: right after it, a lookup with purgeCache off of
\* any file of F is a miss.
C13_FolderCleared ==
  [][\A folderName \in Folders :
       ClearFolderCache(folderName) =>
         \A key \in DerivedKeys(folderName) :
           /\ key \notin DOMAIN cache'
           /\ ~isCacheHit(FALSE, cache', key, now')]_vars

\* a folder call has cached a new result and counted a hit, and the entry it
\* wrote is gone before the call is released: the folder has been cleared in
\* between (a flush would have reset the hits)
C13_Witness ==
  \E c \in Calls :
    /\ FolderDone(c)
    /\ calls[c].folderName = Folder_1
    /\ stats.hits >= 1
    /\ \E j \in 1..Len(calls[c].ret) : CachedHit(calls[c].ret[j])
    /\ \E j \in 1..Len(calls[c].ret) :
         /\ FreshSuccess(calls[c].ret[j])
         /\ CallKey(calls[c], calls[c].ret[j]) \notin DOMAIN cache
    /\ \A key \in DerivedKeys(Folder_1) : key \notin DOMAIN cache

\* C14: clearFolderCache(F) leaves unchanged every entry whose key was derived
\* with another folder name, also when that name contains an underscore or
\* contains F.
C14_OtherFoldersKept ==
  [][\A folderName \in Folders :
       ClearFolderCache(folderName) =>
         \A other \in Folders \ {folderName} :
           \A key \in DerivedKeys(other) \cap DOMAIN cache :
             key \in DOMAIN cache' /\ cache'[key] = cache[key]]_vars

\* C16: the hits and misses reported by getCacheStats never decrease, over lookups,
\* writes, clearFolderCache and clearAllCache.
C16_CountersMonotonic ==
  [][/\ getCacheStats(cache', stats').hits >= getCacheStats(cache, stats).hits
     /\ getCacheStats(cache', stats').misses >= getCacheStats(cache, stats).misses]_vars

\* the files of a starting call that its lookup did not serve from the cache
NotServed(call) == {file \in LookedUp(call) : file.fileUrl \notin ServedFromCache(call)}

\* C17: every lookup of processFolderImages or processSingleImageByName served
\* from the cache counts one hit and every lookup that finds no entry counts one
\* miss, and hitRate is hits / (hits + misses), 0 when both are 0: a call over N
\* uncached files leaves misses = N, the same call again hits = N and hitRate 1/2.
C17_HitRate ==
  [][\A c \in Calls :
       (calls[c].pc = "idle" /\ calls'[c].pc # "idle" /\ ~calls'[c].purgeCache) =>
         LET before == getCacheStats(cache, stats)
             after == getCacheStats(cache', stats')
             served == Cardinality(LookedUp(calls'[c]) \ NotServed(calls'[c]))
             missed == Cardinality(NotServed(calls'[c]))
         IN  /\ after.hits = before.hits + served
             /\ after.misses = before.misses + missed
             /\ after.hitRate[1] * (after.hits + after.misses)
                  = after.hits * after.hitRate[2]
             /\ (after.hits + after.misses = 0) => after.hitRate[1] = 0]_vars

NamePresent(call) == \E j \in 1..Len(call.files) : call.files[j].fileName = call.imageName

\* C18: processSingleImageByName raises the not-found error when no file of the
\* list has the name, and then downloads nothing and leaves the cache as it was;
\* when the name is present it never raises, and a failed processing is returned
\* as a result with isResized=false.
C18_NotFoundOnly ==
  [][\A c \in Calls :
       calls'[c].op = "byName" =>
         /\ calls'[c].pc = "threw" <=> ~NamePresent(calls'[c])
         /\ calls'[c].pc = "threw" =>
              /\ calls'[c].ret = <<E_notFound>>
              /\ calls'[c].items = <<>>
              /\ calls[c].pc = "idle" => (cache' = cache /\ stats' = stats)
         /\ (calls[c].pc = "single" /\ calls'[c].pc = "done"
               /\ Last(calls'[c].items[1].outcomes) \in FailureOutcomes) =>
              /\ ~calls'[c].ret[1].isResized
              /\ HasError(calls'[c].ret[1])
              /\ cache' = cache]_vars

\* the name is absent from a list that is not empty, while the cache holds entries
C18_Witness ==
  \E c \in Calls :
    /\ calls[c].op = "byName"
    /\ calls[c].pc = "threw"
    /\ Len(calls[c].files) > 0
    /\ ~NamePresent(calls[c])
    /\ cache # EmptyCache

\* C15: the cache controller acts on the cache that serves the image requests:
\* once clearCache has answered success, for a folder or for everything, no key
\* that was cached is a hit for an image request any more, and the number of keys
\* getCacheStats reports is the number of entries that cache holds.
C15_AdminActsOnServingCache ==
  [][/\ \A folderName \in {Null, Folder_1} :
          ClearCache(folderName) =>
            \A key \in DOMAIN cache :
              (folderName = Null \/ includes(key, S_resize \o folderName \o <<"_">>)) =>
                ~isCacheHit(FALSE, cache', key, now')
     /\ GetCacheStats => http'.data.keys = Cardinality(DOMAIN cache)]_vars

\* a response of getImage for a folder that lists files, none of them with the
\* name asked for
NameMissing(r) ==
  /\ r.handler = "getImage"
  /\ r.listed # Null
  /\ Len(r.listed) > 0
  /\ \A j \in 1..Len(r.listed) : r.listed[j].fileName # r.imageName

\* C19: GET /api/images/{folderName}/{imageName} answers 404 when the folder lists
\* files but none named imageName.
C19_MissingImageIs404 ==
  NameMissing(http) => http.status = 404

\* a dimension the service may be given: a positive integer, or unset
PositiveOrUnset(v) == v = Null \/ (v # NaN /\ v[1] > 0)

\* C20: the controllers give the resize service only widths and heights that are
\* positive integers or unset, and no entry is cached for a request with a zero,
\* negative or NaN dimension.
C20_DimensionsValidated ==
  /\ \A c \in Calls :
       calls[c].op \in {"byName", "folder"} =>
         PositiveOrUnset(calls[c].width) /\ PositiveOrUnset(calls[c].height)
  /\ \A q \in DOMAIN resized : PositiveOrUnset(q[2]) /\ PositiveOrUnset(q[3])

\* the text after the last '.' of the URL, lower-cased, is none of the six formats
UnsupportedUrl(url) ==
  LET dot == lastIndexOf(url, ".")
  IN  dot = -1 \/ toLowerCase(SubSeq(url, dot + 2, Len(url)))
                    \notin {S_jpg, S_jpeg, S_png, S_webp, S_gif, S_tiff}

\* C21: a file whose extension is not a supported format is answered with a
\* failure result before any download: downloadImage is never called for it, it
\* is never retried, and no cache entry is written for it.
C21_UnsupportedShortCircuit ==
  /\ \A c \in Calls : \A k \in 1..Len(calls[c].items) :
       ("fileUrl" \in DOMAIN calls[c].toProcess[k]
          /\ UnsupportedUrl(calls[c].toProcess[k].fileUrl)) =>
         LET item == calls[c].items[k]
         IN  /\ item.pc \in {"pending", "settled"}
             /\ Downloads(item) = 0
             /\ item.attempt = 0
             /\ item.waits = <<>>
             /\ item.pc = "settled" =>
                  /\ ~item.value[1].isResized
                  /\ item.value[1].resizedUrl = Null
  /\ \A q \in DOMAIN resized : ~UnsupportedUrl(q[4])
  /\ \A folderName \in Folders, d \in Dimensions :
       generateCacheKey(folderName, d.width, d.height, Url_d) \notin DOMAIN cache

\* a folder call has returned the failure of d.txt, never downloaded, next to a
\* new result that was cached
C21_Witness ==
  \E c \in Calls :
    /\ FolderDone(c)
    /\ \E k \in 1..Len(calls[c].items) :
         /\ calls[c].toProcess[k] = File_d
         /\ calls[c].items[k].outcomes = <<"unsupported">>
    /\ \E j \in 1..Len(calls[c].ret) :
         calls[c].ret[j].fileName = File_d.fileName /\ ~calls[c].ret[j].isResized
    /\ \E j \in 1..Len(calls[c].ret) : FreshSuccess(calls[c].ret[j])
    /\ cache # EmptyCache

Applied(fn) == probe.stage = "done" /\ probe.fn = fn

\* the extension of the URL, lower-cased; empty when the URL has no '.'
ExtensionOf(url) ==
  IF \E i \in 1..Len(url) : url[i] = "."
    THEN toLowerCase(SubSeq(url, lastIndexOf(url, ".") + 2, Len(url)))
    ELSE <<>>

\* C22: with an alpha channel determineOutputFormat answers the extension's own
\* format when it is png or webp and png otherwise; without one it answers webp
\* for .webp and jpeg otherwise; so every new result with hasTransparency has
\* outputFormat png or webp.
C22_TransparencyPreserved ==
  Applied("determineOutputFormat") =>
    /\ probe.hasAlpha =>
         probe.format = (CASE ExtensionOf(probe.url) = S_png -> "png"
                           [] ExtensionOf(probe.url) = S_webp -> "webp"
                           [] OTHER -> "png")
    /\ ~probe.hasAlpha =>
         probe.format = (IF ExtensionOf(probe.url) = S_webp THEN "webp" ELSE "jpeg")
    /\ (FreshSuccess(probe.result) /\ probe.result.hasTransparency) =>
         probe.result.outputFormat \in {"png", "webp"}

\* a .jpg image with an alpha channel has been processed into a png
C22_Witness ==
  /\ Applied("determineOutputFormat")
  /\ probe.hasAlpha
  /\ ExtensionOf(probe.url) = S_jpg
  /\ probe.url \in TransparentUrls
  /\ FreshSuccess(probe.result)
  /\ probe.result.hasTransparency
  /\ probe.result.outputFormat = "png"

\* C23: the output is never larger than the source, nor than a dimension that was
\* requested, and it has the native size when every requested dimension is at
\* least the native one.
C23_NoEnlargement ==
  (Applied("resizeImage") /\ (probe.width # Null \/ probe.height # Null)) =>
    /\ probe.dimensions.width <= probe.sw
    /\ probe.dimensions.height <= probe.sh
    /\ probe.width # Null => probe.dimensions.width <= probe.width[1]
    /\ probe.height # Null => probe.dimensions.height <= probe.height[1]
    /\ ((probe.width # Null => probe.width[1] >= probe.sw)
         /\ (probe.height # Null => probe.height[1] >= probe.sh)) =>
         probe.dimensions = [width |-> probe.sw, height |-> probe.sh]

\* a request wider than the source and lower than it: the output is shrunk to the
\* requested height
C23_Witness ==
  /\ Applied("resizeImage")
  /\ probe.width # Null /\ probe.width[1] > probe.sw
  /\ probe.height # Null /\ probe.height[1] < probe.sh
  /\ probe.dimensions.height = probe.height[1]
  /\ probe.dimensions.width < probe.sw

\* the channel written by the two hex digits at positions i and i + 1 of hex: its
\* value, or 255 when a digit is missing or is no hex digit
ChannelOf(hex, i) ==
  IF Len(hex) >= i + 1 /\ IsHex(hex[i]) /\ IsHex(hex[i + 1])
    THEN 16 * HexValue(hex[i]) + HexValue(hex[i + 1])
    ELSE 255

\* C28: parseBackgroundColor gives each channel the value of its own two hex
\* digits, and 255 when they are missing or malformed: #000000 is {0, 0, 0} and
\* #ff0000 is {255, 0, 0}.
C28_BackgroundColor ==
  Applied("parseBackgroundColor") =>
    LET hex == IF Len(probe.backgroundColor) > 0 /\ probe.backgroundColor[1] = "#"
                 THEN Tail(probe.backgroundColor) ELSE probe.backgroundColor
    IN  probe.color = [r |-> ChannelOf(hex, 1), g |-> ChannelOf(hex, 3),
                       b |-> ChannelOf(hex, 5)]

\* C24: every miss that processFolderImages or processSingleImageByName resizes
\* successfully has its entry written before the call returns: at the return a
\* lookup with purgeCache off of its key is a hit.
C24_WriteBeforeReturn ==
  [][\A c \in Calls :
       (calls[c].pc # "done" /\ calls'[c].pc = "done"
          /\ calls'[c].op \in {"folder", "byName"}) =>
         \A j \in 1..Len(calls'[c].ret) :
           FreshSuccess(calls'[c].ret[j]) =>
             LET key == CallKey(calls'[c], calls'[c].ret[j])
             IN  /\ key \in DOMAIN cache'
                 /\ isCacheHit(FALSE, cache', key, now')
                 /\ cache'[key].v.timestamp = now']_vars

\* a call has returned two new results, and both keys are held
C24_Witness ==
  \E c \in Calls :
    /\ FolderDone(c)
    /\ Cardinality({j \in 1..Len(calls[c].ret) :
                      /\ FreshSuccess(calls[c].ret[j])
                      /\ CallKey(calls[c], calls[c].ret[j]) \in DOMAIN cache}) >= 2
    /\ Cardinality(DOMAIN cache) >= 2

\* the successful results of processing the file for the request of the two
\* concurrent callers
SuccessesOf(file) ==
  {r \in {processSingleImageEnd(file, Folder_1_2, Num(100), Null, defaultBackground, o) :
            o \in {"ok", "analyzefail"}} : r.isResized}

\* the entry is whole and is the one written from a single successful result of a
\* file of this key
CompleteEntry(c, key) ==
  /\ c[key].v.dataUrl # Null
  /\ DOMAIN c[key].v.dimensions = {"width", "height"}
  /\ c[key].v.hasTransparency \in BOOLEAN
  /\ c[key].v.outputFormat \in {"jpeg", "png", "webp"}
  /\ \E file \in FolderFiles(Folder_1_2) :
       /\ key = generateCacheKey(Folder_1_2, Num(100), Null, file.fileUrl)
       /\ \E r \in SuccessesOf(file) :
            c[key].v = cacheEntry(r, c[key].v.timestamp)

\* C25: with two requests interleaved, every entry the cache holds is complete
\* and is the entry of one successful result (isResized=true) of a file of its
\* key; an entry is created or changed only in the step in which a call returns
\* a fresh successful result for that key, and holds that result.  A failed or
\* unsupported item, and an item still in flight, writes nothing.
C25_EntriesComplete ==
  [][/\ \A key \in DOMAIN cache' : CompleteEntry(cache', key)
     /\ \A key \in DOMAIN cache' :
          (key \notin DOMAIN cache \/ cache'[key] # cache[key]) =>
            \E c \in DOMAIN calls :
              /\ calls[c].pc # "done" /\ calls'[c].pc = "done"
              /\ \E j \in 1..Len(Produced(calls'[c])) :
                   LET r == Produced(calls'[c])[j]
                   IN  /\ r.isResized /\ shouldCache(r)
                       /\ key = CallKey(calls'[c], r)
                       /\ cache'[key].v = cacheEntry(r, now')]_vars

\* both requests have returned, one with a failure and one with a fresh success
\* whose entry the cache holds
C25_Witness ==
  /\ DOMAIN calls = Calls2
  /\ \E c, d \in Calls2 :
       /\ c # d
       /\ calls[c].pc = "done" /\ calls[d].pc = "done"
       /\ \E j \in 1..Len(calls[c].ret) : Failure(calls[c].ret[j])
       /\ \E j \in 1..Len(calls[d].ret) :
            /\ FreshSuccess(calls[d].ret[j])
            /\ CallKey(calls[d], calls[d].ret[j]) \in DOMAIN cache
            /\ cache[CallKey(calls[d], calls[d].ret[j])].v
                 = cacheEntry(calls[d].ret[j], now)

\* C26: downloadImage never resolves with more than 50 * 1024 * 1024 bytes; once
\* the bytes received exceed that, the request is destroyed and the promise is
\* rejected with 'File too large'; and a promise that has settled keeps its
\* outcome, whatever end, error or timeout event comes later.
C26_SizeCeiling ==
  [][/\ download'.settled = "resolved" => download'.value.bytes <= sizeLimit
     /\ download'.receivedBytes > sizeLimit =>
          /\ download'.destroyed
          /\ download'.settled = "rejected"
          /\ download'.value.error = E_tooLarge
     /\ (download.pc # "idle" /\ download.settled # "pending") =>
          /\ download'.settled = download.settled
          /\ download'.value = download.value
          /\ download'.settledAt = download.settledAt]_vars

\* the ceiling was exceeded, the call failed with 'File too large', and a later
\* event called reject again
C26_Witness ==
  /\ download.receivedBytes > sizeLimit
  /\ download.settled = "rejected"
  /\ download.value.error = E_tooLarge
  /\ download.late = 1

\* C27: a call of downloadImage that has not settled was started at most
\* downloadTimeout milliseconds ago.
C27_SettlesWithinTimeout ==
  (download.pc # "idle" /\ download.settled = "pending") =>
    download.clock - download.started <= downloadTimeout

\* the promise has settled: its item succeeded or failed for good
Settled(item) == item.pc \in {"settled", "rejected"}

\* the calls inside processBatches
InBatches(call) == call.pc \in {"batch", "pause"}

\* C29: processBatches takes the items in consecutive chunks of batchSize in
\* input order.  While the chunk at i runs, every item before it has settled,
\* every item of it has been started and no item after it has; the results pushed
\* are those of the items in input order; an item that ends changes no other item,
\* and the result of an item whose download ended is the one of its own file and
\* outcome, whatever happened to the others.
C29_ChunkBarrier ==
  [][\A c \in DOMAIN calls :
       LET call == calls'[c]
           n == Len(call.toProcess)
       IN  /\ InBatches(call) =>
                /\ call.i % batchSize = 0
                /\ \A k \in 1..n :
                     /\ k <= call.i => Settled(call.items[k])
                     /\ k \in Chunk(call.i, n) => call.items[k].pc # "pending"
                     /\ k > call.i + batchSize => call.items[k] = NewItem
                /\ call.pc = "pause" => \A k \in Chunk(call.i, n) : Settled(call.items[k])
                /\ \A k \in 1..Len(call.results) :
                     call.results[k] = settledResult(call.items[k])
                /\ \A k \in 1..n :
                     (Settled(call.items[k]) /\ Last(call.items[k].outcomes) \in Outcomes) =>
                       call.items[k].value[1] =
                         processSingleImageEnd(call.toProcess[k], call.folderName, call.width,
                                               call.height, defaultBackground,
                                               Last(call.items[k].outcomes))
           /\ (InBatches(call) /\ calls[c].pc = "batch" /\ call.i = calls[c].i) =>
                \A k \in 1..n :
                  (Settled(call.items[k]) /\ ~Settled(calls[c].items[k])) =>
                    \A j \in 1..n : j # k => call.items[j] = calls[c].items[j]]_vars

\* the second chunk runs after a first chunk in which one item failed and the
\* other succeeded
C29_Witness ==
  \E c \in Calls :
    /\ calls[c].pc = "batch"
    /\ calls[c].i = batchSize
    /\ Len(calls[c].toProcess) > batchSize
    /\ \E j, k \in 1..batchSize :
         /\ Settled(calls[c].items[j]) /\ ~calls[c].items[j].value[1].isResized
         /\ Settled(calls[c].items[k]) /\ calls[c].items[k].value[1].isResized
    /\ calls[c].items[batchSize + 1].pc = "inflight"

\* ceil(n / b) - 1, and 0 for no item
pausesFor(n) == IF n = 0 THEN 0 ELSE (n + batchSize - 1) \div batchSize - 1

\* C30: processBatches takes its 10 ms delay once after each chunk but the last:
\* a call over n items has taken ceil(n / batchSize) - 1 delays when it returns,
\* none when n <= batchSize, and at any moment one delay per chunk completed
\* before the current one.
C30_Pacing ==
  \A c \in Calls :
    LET call == calls[c]
        n == Len(call.toProcess)
    IN  /\ call.pc \in {"collected", "done"} /\ call.op \in {"folder", "batches"} =>
             call.delays = pausesFor(n)
        /\ call.pc = "batch" => call.delays = call.i \div batchSize
        /\ call.pc = "pause" => call.delays = call.i \div batchSize + 1
        /\ n <= batchSize => call.delays = 0

\* a call over more items than one chunk has returned after one delay
C30_Witness ==
  \E c \in Calls :
    /\ calls[c].pc = "done"
    /\ calls[c].op = "folder"
    /\ Len(calls[c].toProcess) > batchSize
    /\ calls[c].delays = 1

(***************************************************************************)
(* The items in flight and the sockets of the agent                         *)
(***************************************************************************)
\* this.maxConcurrent, the maxSockets of httpAgent and httpsAgent (the default
\* Math.min(os.cpus().length * 2, 16) on a host with one CPU)
maxConcurrent == 2

\* the chunks processBatches maps: at most batchSize files that are downloaded
Chunks ==
  {f \in ListsOf({File_a1, File_c}) : Len(f) \in 1..batchSize}

\* the items of all calls that are at one of the stages
ItemsAt(stages) ==
  {ck \in (DOMAIN calls) \X (1..batchSize) :
     /\ ck[2] \in DOMAIN calls[ck[1]].items
     /\ calls[ck[1]].items[ck[2]].pc \in stages}

\* the sockets of the agent that carry a request (all URLs are of one origin)
socketsInUse == Cardinality(ItemsAt({"downloading"}))

\* the items whose download or transcode is under way
inFlight == Cardinality(ItemsAt({"downloading", "transcoding"}))

\* batch.map(file => this.processSingleImageWithRetry(...)) of one chunk: every
\* item runs up to protocol.get, which queues its request at the agent.
MapChunk(c, files) ==
  /\ calls[c].pc = "idle"
  /\ calls' = [calls EXCEPT ![c] =
       [NoCall EXCEPT !.op = "batches", !.pc = "batch", !.files = files,
          !.folderName = Folder_1, !.width = Num(100), !.toProcess = files,
          !.items = [k \in 1..Len(files) |-> [NewItem EXCEPT !.pc = "queued"]]]]
  /\ UNCHANGED <<cache, now, resized, probe, stats, admin, http, swept, download>>

\* The agent gives a free socket to the request of item k: maxSockets bounds the
\* requests of one origin that have a socket.
SocketAssigned(c, k) ==
  /\ calls[c].pc = "batch"
  /\ k \in DOMAIN calls[c].items
  /\ calls[c].items[k].pc = "queued"
  /\ socketsInUse < maxConcurrent
  /\ calls' = [calls EXCEPT ![c].items[k].pc = "downloading"]
  /\ UNCHANGED <<cache, now, resized, probe, stats, admin, http, swept, download>>

\* The response of item k ends: downloadImage resolves, the socket goes back to
\* the agent, and processSingleImage goes on to hasTransparency and resizeImage.
DownloadEnds(c, k) ==
  /\ calls[c].pc = "batch"
  /\ k \in DOMAIN calls[c].items
  /\ calls[c].items[k].pc = "downloading"
  /\ calls' = [calls EXCEPT ![c].items[k].pc = "transcoding"]
  /\ UNCHANGED <<cache, now, resized, probe, stats, admin, http, swept, download>>

\* sharp has resized the image of item k: processSingleImage returns.
TranscodeEnds(c, k) ==
  /\ calls[c].pc = "batch"
  /\ k \in DOMAIN calls[c].items
  /\ calls[c].items[k].pc = "transcoding"
  /\ LET call == calls[c]
         value == processSingleImageEnd(call.toProcess[k], call.folderName, call.width,
                                        call.height, defaultBackground, "ok")
     IN  calls' = [calls EXCEPT ![c].items[k] = onAttemptReturned(@, value, "ok")]
  /\ UNCHANGED <<cache, now, resized, probe, stats, admin, http, swept, download>>

\* Promise.allSettled of the chunk resolves and the caller takes the results.
ChunkReturns(c) ==
  /\ calls[c].pc = "batch"
  /\ \A k \in DOMAIN calls[c].items : calls[c].items[k].pc = "settled"
  /\ calls' = [calls EXCEPT ![c] = NoCall]
  /\ UNCHANGED <<cache, now, resized, probe, stats, admin, http, swept, download>>

NextPool ==
  \/ \E c \in Calls2, files \in Chunks : MapChunk(c, files)
  \/ \E c \in Calls2, k \in 1..batchSize : SocketAssigned(c, k)
  \/ \E c \in Calls2, k \in 1..batchSize : DownloadEnds(c, k)
  \/ \E c \in Calls2, k \in 1..batchSize : TranscodeEnds(c, k)
  \/ \E c \in Calls2 : ChunkReturns(c)

SpecPool == InitTwo /\ [][NextPool]_vars

\* C31: the items whose download or transcode is under way at one moment are at
\* most maxConcurrent, whatever batchSize is and however many calls overlap.
C31_ConcurrencyCeiling == inFlight <= maxConcurrent

(***************************************************************************)
(* api/images/[folderName].js: the ImageService of the serverless handler   *)
(***************************************************************************)
\* a blob whose pathname ends with '/': pathname.split('/').pop() is ''
File_blank == [fileName |-> "", fileUrl |-> S_host \o <<"f", "/">>]

E_fetch == "Download failed: Failed to download image: Not Found"

\* `${folderName}_${width}x${height}_${fileUrl}`
handlerCacheKey(folderName, width, height, fileUrl) ==
  folderName \o <<"_">> \o dimToString(width) \o <<"x">> \o dimToString(height)
    \o <<"_">> \o fileUrl

\* supportedExtensions.includes(`.${fileUrl.toLowerCase().split('.').pop()}`)
handlerIsSupportedFormat(fileUrl) ==
  LET lower == toLowerCase(fileUrl)
      dot == lastIndexOf(lower, ".")
      ext == IF dot = -1 THEN lower ELSE substring(lower, dot + 1)
  IN  ext \in {S_jpg, S_jpeg, S_png, S_webp, S_gif}

\* The handler's processSingleImage once its download has ended as `outcome`; of
\* a resized image only the data URL is kept here, as the bytes of its source.
handlerProcessSingleImage(file, outcome) ==
  IF ~handlerIsSupportedFormat(file.fileUrl)
    THEN [resizedUrl |-> Null, isResized |-> FALSE, message |-> "Unsupported format"] @@ file
  ELSE IF outcome = "dlfail" THEN failedResult(file, E_fetch)
  ELSE [resizedUrl |-> <<"data:", file.fileUrl>>, isResized |-> TRUE,
        isCached |-> FALSE] @@ file

RECURSIVE handlerFirstPass(_, _, _, _, _)
\* The first loop: st = [processedFiles, toProcess]; keys are those the Map has.
handlerFirstPass(files, i, keyOf, st, served) ==
  IF i > Len(files) THEN st
  ELSE
    LET file == files[i]
    IN  IF file.fileName = "" THEN handlerFirstPass(files, i + 1, keyOf, st, served)
        ELSE IF keyOf[file.fileUrl] \in served
          THEN handlerFirstPass(files, i + 1, keyOf,
                 [st EXCEPT !.processedFiles =
                    Append(@, [resizedUrl |-> <<"data:", file.fileUrl>>, isResized |-> TRUE,
                               isCached |-> TRUE] @@ file)], served)
          ELSE handlerFirstPass(files, i + 1, keyOf,
                 [st EXCEPT !.toProcess = Append(@, file)], served)

RECURSIVE handlerBatches(_, _, _, _, _)
\* The loop over the batches of 3 and, inside it, over the settled promises of
\* one batch, which together take toProcess in its order (every promise is
\* fulfilled: processSingleImage catches its errors): st = [processedFiles, keys].
handlerBatches(toProcess, k, keyOf, outcome, st) ==
  IF k > Len(toProcess) THEN st
  ELSE
    LET value == handlerProcessSingleImage(toProcess[k], outcome[toProcess[k].fileUrl])
    IN  handlerBatches(toProcess, k + 1, keyOf, outcome,
          [processedFiles |-> Append(st.processedFiles, value),
           keys |-> IF value.isResized /\ value.resizedUrl # Null
                      THEN st.keys \cup {keyOf[value.fileUrl]} ELSE st.keys])

\* processFolderImages(files, folderName, width, height, purgeCache) of the
\* handler, over a Map holding keys: what it returns and the keys the Map holds.
handlerProcessFolderImages(files, folderName, width, height, purgeCache, keys, outcome) ==
  LET keyOf == [u \in {files[i].fileUrl : i \in 1..Len(files)} |->
                  handlerCacheKey(folderName, width, height, u)]
      first == handlerFirstPass(files, 1, keyOf,
                                [processedFiles |-> <<>>, toProcess |-> <<>>],
                                IF purgeCache THEN {} ELSE keys)
  IN  IF Len(first.toProcess) = 0
        THEN [processedFiles |-> first.processedFiles, keys |-> keys]
        ELSE handlerBatches(first.toProcess, 1, keyOf, outcome,
                            [processedFiles |-> first.processedFiles, keys |-> keys])

\* the calls of the handler's processFolderImages that are checked
HandlerArgs ==
  {[stage |-> "args", fn |-> "handler", files |-> files, purgeCache |-> purgeCache,
    keys |-> keys, outcome |-> outcome] :
     files \in ListsOf({File_a1, File_c, File_d, File_blank}),
     purgeCache \in BOOLEAN,
     keys \in SUBSET {handlerCacheKey(Folder_1, Num(100), Null, Url_a1)},
     outcome \in {[u \in {Url_a1, Url_c, Url_d, File_blank.fileUrl} |->
                     IF u = Url_a1 THEN a ELSE b] : a, b \in {"ok", "dlfail"}}}

InitHandler ==
  /\ cache = EmptyCache
  /\ now = 0
  /\ calls = [c \in Calls |-> NoCall]
  /\ resized = NoHistory
  /\ probe \in HandlerArgs
  /\ stats = NoStats
  /\ admin = [cache |-> EmptyCache, stats |-> NoStats]
  /\ http = NoResponse
  /\ swept = 0
  /\ download = NoDownload

HandlerProcessFolderImages ==
  /\ probe.stage = "args"
  /\ probe.fn = "handler"
  /\ probe' = [probe EXCEPT !.stage = "done"] @@
       [ret |-> handlerProcessFolderImages(probe.files, Folder_1, Num(100), Null,
                                           probe.purgeCache, probe.keys, probe.outcome)]
  /\ UNCHANGED <<cache, now, calls, resized, stats, admin, http, swept, download>>

NextHandler == HandlerProcessFolderImages

SpecHandler == InitHandler /\ [][NextHandler]_vars

\* C32: the handler's processFolderImages returns one result per file of the
\* list it is given, also for a list with an entry whose fileName is empty, and
\* the result of a failed item carries the fields of its file.
C32_HandlerOneResultPerFile ==
  (probe.stage = "done" /\ probe.fn = "handler") =>
    /\ Len(probe.ret.processedFiles) = Len(probe.files)
    /\ \A j \in 1..Len(probe.ret.processedFiles) :
         LET r == probe.ret.processedFiles[j]
         IN  ~r.isResized =>
               \E i \in 1..Len(probe.files) :
                 /\ r.fileName = probe.files[i].fileName
                 /\ r.fileUrl = probe.files[i].fileUrl

\* the result is the one of the file: it has its fileName and its fileUrl
ResultOf(r, file) ==
  /\ "fileName" \in DOMAIN r /\ r.fileName = file.fileName
  /\ "fileUrl" \in DOMAIN r /\ r.fileUrl = file.fileUrl

\* C33: the results processFolderImages returns correspond one to one to its
\* input files: every result, hit, fresh success, unsupported or failed, has the
\* fileName and fileUrl of an input file, every input file has exactly one
\* result, and no promise of processBatches is rejected, so the failure record
\* without file fields is never built.
C33_ResultIdentity ==
  \A c \in Calls :
    calls[c].op = "folder" =>
      /\ \A k \in DOMAIN calls[c].items : calls[c].items[k].pc # "rejected"
      /\ calls[c].pc = "done" =>
           /\ Len(calls[c].ret) = Len(calls[c].files)
           /\ \A j \in 1..Len(calls[c].ret) :
                \E i \in 1..Len(calls[c].files) : ResultOf(calls[c].ret[j], calls[c].files[i])
           /\ \A i \in 1..Len(calls[c].files) :
                Cardinality({j \in 1..Len(calls[c].ret) :
                               ResultOf(calls[c].ret[j], calls[c].files[i])}) = 1

\* a call has returned a hit, a fresh success and an unsupported file
C33_Witness ==
  \E c \in Calls :
    /\ FolderDone(c)
    /\ \E h, f, u \in 1..Len(calls[c].ret) :
         /\ CachedHit(calls[c].ret[h])
         /\ FreshSuccess(calls[c].ret[f])
         /\ "message" \in DOMAIN calls[c].ret[u]
    /\ C33_ResultIdentity

\* the files of the results, in the order of the results
FilesOf(results) ==
  [j \in 1..Len(results) |-> [fileName |-> results[j].fileName, fileUrl |-> results[j].fileUrl]]

\* C34: processFolderImages returns the cached hits first, in the order of their
\* files in the input, and then the processed misses, in the order of their
\* files in the input, in whatever order the downloads ended; with no hit or no
\* miss the order is the one of the input.
C34_ResultOrder ==
  \A c \in Calls :
    FolderDone(c) =>
      LET ret == calls[c].ret
          Hit(file) == \E j \in 1..Len(ret) : ResultOf(ret[j], file) /\ IsCachedResult(ret[j])
          Miss(file) == ~Hit(file)
          hits == SelectSeq(calls[c].files, Hit)
          misses == SelectSeq(calls[c].files, Miss)
      IN  /\ FilesOf(ret) = FilesOf(hits \o misses)
          /\ (hits = <<>> \/ misses = <<>>) => FilesOf(ret) = FilesOf(calls[c].files)

\* a call has returned a hit before two misses, for an input with the hit's file
\* after the first miss
C34_Witness ==
  \E c \in Calls :
    /\ FolderDone(c)
    /\ Len(calls[c].ret) = 3
    /\ IsCachedResult(calls[c].ret[1])
    /\ ~IsCachedResult(calls[c].ret[2]) /\ ~IsCachedResult(calls[c].ret[3])
    /\ ResultOf(calls[c].ret[1], calls[c].files[2])
    /\ ResultOf(calls[c].ret[2], calls[c].files[1])
    /\ ResultOf(calls[c].ret[3], calls[c].files[3])

\* the file is among those the call processes itself
Processes(call, file) ==
  \E k \in 1..Len(call.toProcess) : call.toProcess[k] = file

\* C35: overlapping calls for the same uncached key are not coalesced.  A call
\* that starts while the key has no entry processes the file itself, also when
\* another call has the same file in flight; each returns its own result with
\* isCached=false and writes the key, so that the key holds the entry of the call
\* that returned last; and every entry the cache holds is complete.
C35_NotCoalesced ==
  [][\A c \in DOMAIN calls :
       LET call == calls'[c]
       IN  /\ (calls[c].pc = "idle" /\ call.pc # "idle" /\ call.op = "folder") =>
                \A i \in 1..Len(call.files) :
                  CallKey(call, call.files[i]) \notin DOMAIN cache =>
                    Processes(call, call.files[i])
           /\ (calls[c].pc = "idle" /\ call.pc \notin {"idle", "threw"} /\ call.op = "byName") =>
                \A i \in 1..Len(call.files) :
                  (call.files[i].fileName = call.imageName
                     /\ CallKey(call, call.files[i]) \notin DOMAIN cache) =>
                    call.pc = "single" /\ Processes(call, call.files[i])
           /\ (calls[c].pc # "done" /\ call.pc = "done") =>
                \A j \in 1..Len(call.ret) :
                  (/\ FreshSuccess(call.ret[j])
                   /\ \A l \in (j + 1)..Len(call.ret) :
                        FreshSuccess(call.ret[l]) =>
                          CallKey(call, call.ret[l]) # CallKey(call, call.ret[j])) =>
                    /\ ~call.ret[j].isCached
                    /\ CallKey(call, call.ret[j]) \in DOMAIN cache'
                    /\ cache'[CallKey(call, call.ret[j])].v = cacheEntry(call.ret[j], now')
           /\ \A key \in DOMAIN cache' : CompleteEntry(cache', key)]_vars

\* two calls without purgeCache have both returned a fresh result for the same
\* URL, which only overlapping calls do, and the key holds its entry
C35_Witness ==
  /\ DOMAIN calls = Calls2
  /\ \E c, d \in Calls2 :
       /\ c # d
       /\ calls[c].pc = "done" /\ calls[d].pc = "done"
       /\ ~calls[c].purgeCache /\ ~calls[d].purgeCache
       /\ \E j \in 1..Len(calls[c].ret), l \in 1..Len(calls[d].ret) :
            /\ FreshSuccess(calls[c].ret[j]) /\ FreshSuccess(calls[d].ret[l])
            /\ calls[c].ret[j].fileUrl = calls[d].ret[l].fileUrl
            /\ CallKey(calls[c], calls[c].ret[j]) \in DOMAIN cache

\* C36: an eviction is not undone by work started before it.  When a call
\* returns, no item that was under way when clearFolderCache or clearAllCache
\* covered its key has its result in the cache.
C36_EvictionHolds ==
  [][\A c \in DOMAIN calls :
       (calls[c].pc # "done" /\ calls'[c].pc = "done") =>
         \A k \in calls[c].evicted :
           LET call == calls'[c]
               key == CallKey(call, call.toProcess[k])
           IN  ~(/\ key \in DOMAIN cache'
                 /\ call.items[k].value # <<>>
                 /\ shouldCache(call.items[k].value[1])
                 /\ cache'[key].v = cacheEntry(call.items[k].value[1], now'))]_vars

\* C37: processSingleImage never gives resizeImage the format jpeg together with
\* hasAlpha=true, so nothing is flattened: its result, and the cache entry made
\* of it, is the same for every backgroundColor as for the default one.
C37_BackgroundHasNoEffect ==
  (probe.stage = "done" /\ probe.fn = "processSingleImage") =>
    /\ ~(probe.format \in {"jpeg", "jpg"} /\ probe.hasAlpha)
    /\ probe.result = probe.resultDefault
    /\ probe.result.isResized =>
         cacheEntry(probe.result, 0) = cacheEntry(probe.resultDefault, 0)

\* an image with alpha has been resized with a background that is not white
C37_Witness ==
  /\ probe.stage = "done" /\ probe.fn = "processSingleImage"
  /\ probe.hasAlpha
  /\ probe.result.isResized
  /\ parseBackgroundColor(probe.backgroundColor) # parseBackgroundColor(defaultBackground)
  /\ probe.result = probe.resultDefault

\* the call asks for the file
AsksFor(call, file) ==
  IF call.op = "byName" THEN call.imageName = file.fileName
  ELSE \E i \in 1..Len(call.files) : call.files[i] = file

\* what the call has served or returned when it comes back from its lookup
Served(call) == IF call.op = "byName" THEN call.ret ELSE call.processedFiles

\* C38: the path by name and the path by folder share their entries.  When one
\* of them has returned a fresh result for a file and its entry is held, a call of
\* the other path without purgeCache that starts for the same folder, width and
\* height and asks for that file serves it as a hit with the dimensions and the
\* outputFormat of that result, and does not process the file.
C38_PathsShareEntries ==
  [][\A c, d \in DOMAIN calls :
       (/\ c # d
        /\ calls[c].pc = "done"
        /\ calls[d].pc = "idle" /\ calls'[d].pc # "idle"
        /\ {calls[c].op, calls'[d].op} = {"folder", "byName"}
        /\ ~calls'[d].purgeCache) =>
         \A j \in 1..Len(calls[c].ret) :
           LET r == calls[c].ret[j]
               key == CallKey(calls[c], r)
               file == [fileName |-> r.fileName, fileUrl |-> r.fileUrl]
           IN  (/\ FreshSuccess(r)
                /\ key \in DOMAIN cache
                /\ cache[key].v = cacheEntry(r, cache[key].v.timestamp)
                /\ CallKey(calls'[d], r) = key
                /\ AsksFor(calls'[d], file)) =>
                 /\ ~Processes(calls'[d], file)
                 /\ \E l \in 1..Len(Served(calls'[d])) :
                      LET h == Served(calls'[d])[l]
                      IN  /\ ResultOf(h, file)
                          /\ IsCachedResult(h)
                          /\ h.dimensions = r.dimensions
                          /\ h.outputFormat = r.outputFormat]_vars

\* a folder call has been served, as a hit, the entry that a call by name which
\* has returned wrote
C38_Witness ==
  /\ DOMAIN calls = Calls2
  /\ \E c, d \in Calls2 :
       /\ c # d
       /\ calls[c].pc = "done" /\ calls[c].op = "byName"
       /\ FreshSuccess(calls[c].ret[1])
       /\ calls[d].op = "folder" /\ ~calls[d].purgeCache
       /\ \E l \in 1..Len(calls[d].processedFiles) :
            /\ ResultOf(calls[d].processedFiles[l], calls[c].ret[1])
            /\ IsCachedResult(calls[d].processedFiles[l])
            /\ calls[d].processedFiles[l].dimensions = calls[c].ret[1].dimensions

\* the attempts of the item that reached the download
DownloadsOf(item) ==
  Cardinality({a \in 1..Len(item.outcomes) : item.outcomes[a] \in Outcomes})

RECURSIVE SumDownloads(_, _)
SumDownloads(items, k) ==
  IF k = 0 THEN 0 ELSE SumDownloads(items, k - 1) + DownloadsOf(items[k])

\* the call has returned with every miss attempted between once and
\* maxRetries + 1 times, at most (maxRetries + 1) downloads per miss in all, and
\* every chunk taken once: one result per miss and one pause between two chunks
BoundedWork(call) ==
  LET n == Len(call.toProcess)
  IN  /\ \A k \in 1..n :
           /\ call.items[k].pc = "settled"
           /\ Len(call.items[k].outcomes) \in 1..(maxRetries + 1)
      /\ SumDownloads(call.items, n) <= (maxRetries + 1) * n
      /\ Len(call.results) = n
      /\ call.delays = pausesFor(n)

\* C39: when every download ends, a processFolderImages call that has started
\* returns; and a call that has returned has taken every chunk once, attempted
\* every miss at least once and at most maxRetries + 1 times, and downloaded at
\* most (maxRetries + 1) times the number of misses.
C39_Termination ==
  /\ \A c \in Calls :
       (calls[c].op = "folder" /\ calls[c].pc # "done") ~> (calls[c].pc = "done")
  /\ [](\A c \in Calls : FolderDone(c) => BoundedWork(calls[c]))

\* a call over two chunks has returned, with a download that failed
C39_Witness ==
  \E c \in Calls :
    /\ FolderDone(c)
    /\ Len(calls[c].toProcess) > batchSize
    /\ \E k \in 1..Len(calls[c].toProcess) : Last(calls[c].items[k].outcomes) = "dlfail"
    /\ BoundedWork(calls[c])

====
